---------------------------- MODULE Spec2Model ----------------------------
(***************************************************************************)
(* Extrudator: raster image -> traced contours -> classified shapes ->      *)
(* extruded meshes -> STL / DXF payloads.                                   *)
(*                                                                          *)
(* The module models src/js/vectorizer.js (class Vectorizer) and            *)
(* src/js/extruder.js (class Extruder, THREE.STLExporter).                  *)
(*                                                                          *)
(* Numbers.  Pixel coordinates are integers.  Areas are kept as the         *)
(* shoelace accumulator (twice the area), so that `area / 2` never leaves   *)
(* the integers; every comparison of the code is restated on the doubled    *)
(* value.  Simplification tolerances are rationals kept in units of         *)
(* 1/TolDen.  Squared distances are exact rationals <<num, den>>.           *)
(***************************************************************************)
EXTENDS Integers, Sequences, FiniteSets, TLC

VARIABLES
    \* ---- Vectorizer fields (vectorizer.js:5-11)
    imageData,      \* NULL or [width, height, data]; data[<<x,y>>] = <<r,g,b>>
    threshold,      \* this.threshold
    simplification, \* this.simplificationTolerance: the level of the last vectorize call
    \* ---- what the run of vectorize works on
    imageTracer,    \* what ImageTracer.imagedataToSVG yields for the image: a sequence of paths
    phase,          \* position of the vectorize / fallbackVectorize run
    binaryImage,    \* findContoursImproved: the buffer being traced (set of true cells)
    width,          \* findContoursImproved: its width
    height,         \* findContoursImproved: its height
    isInverted,     \* findContoursImproved: the isInverted argument
    maxPoints,      \* findContoursImproved: the point cap of the do-while loop
    visited,        \* findContoursImproved: visited cells
    scan,           \* findContoursImproved: the for-loops' position (raster index)
    tpc,            \* findContoursImproved: "scan" | "trace" | "done"
    contour,        \* findContoursImproved: the contour being walked
    contours,       \* findContoursImproved: contours pushed so far
    externalContours, \* fallbackVectorize: result of the first tracer call
    allContours,    \* vectorizeImageData: the classified records (after the sort)
    advancedOptions, \* fallbackVectorize: its advancedOptions argument
    tolLog,         \* per call site of simplify, the level and tolerance of its last call;
                    \* passed: the point counts of the polygons the last run passed to it
    vectorData,     \* NULL or [contours, width, height]: what vectorize resolved with
    \* ---- Extruder fields (extruder.js:5-13)
    meshes,         \* this.meshes
    shapes,         \* createModel: shapesWithHoles of the last call that got that far
    ret,            \* the last call and what it returned / threw
    \* ---- the page (app.js): buttons, preview, pending callbacks, webcam
    app

vars == <<imageData, threshold, simplification, imageTracer, phase, binaryImage, width,
          height, isInverted, maxPoints, visited, scan, tpc, contour, contours,
          externalContours, allContours, advancedOptions, tolLog, vectorData, meshes, shapes, ret,
          app>>

vectorizerVars == <<imageData, threshold, simplification, imageTracer, phase, binaryImage,
                    width, height, isInverted, maxPoints, visited, scan, tpc, contour,
                    contours, externalContours, allContours, advancedOptions, tolLog, vectorData>>

tracerVars == <<binaryImage, width, height, isInverted, maxPoints, visited, scan, tpc,
                contour, contours>>

\* null / undefined.  A field that may be absent is tested with DOMAIN.
NULL == [null |-> TRUE]

Has(rec, field) == field \in DOMAIN rec

(***************************************************************************)
(* Sequence and arithmetic helpers                                          *)
(***************************************************************************)
Abs(n) == IF n < 0 THEN -n ELSE n

Max(a, b) == IF a >= b THEN a ELSE b

Min(a, b) == IF a <= b THEN a ELSE b

Reverse(s) == [i \in 1..Len(s) |-> s[Len(s) + 1 - i]]

RECURSIVE SumSeq(_)
SumSeq(s) == IF s = <<>> THEN 0 ELSE Head(s) + SumSeq(Tail(s))

RECURSIVE Flatten(_)
Flatten(ss) == IF ss = <<>> THEN <<>> ELSE Head(ss) \o Flatten(Tail(ss))

Range(s) == {s[i] : i \in 1..Len(s)}

Pt(px, py) == [x |-> px, y |-> py]

\* the element of a one-element set; The({e(v) : v \in {w}}) is e with v bound to w
The(S) == CHOOSE v \in S : TRUE

\* the function f, with its value at every argument worked out once
Tabulated(f) == f @@ <<>>

(***************************************************************************)
(* Shoelace accumulator: the value of `area` before the division by 2 in    *)
(* Vectorizer.calculateArea, Extruder.calculateContourArea and              *)
(* analyzeContour (the three loops are the same).                           *)
(***************************************************************************)
ShoelaceSum(c) ==
    LET n == Len(c)
        S[i \in 0..n] ==
            IF i = 0 THEN 0
            ELSE LET j == (i % n) + 1
                 IN  S[i-1] + c[i].x * c[j].y - c[j].x * c[i].y
    IN  S[n]

\* Vectorizer.calculateArea returns ShoelaceSum / 2 (signed).
calculateArea2(c) == ShoelaceSum(c)

\* Extruder.calculateContourArea returns Math.abs(ShoelaceSum / 2).
calculateContourArea2(c) == Abs(ShoelaceSum(c))

(***************************************************************************)
(* Ray casting (Vectorizer.isPointInContour and Extruder.isPointInContour   *)
(* are the same code).  The code compares                                   *)
(*     point.x < (xj - xi) * (point.y - yi) / (yj - yi) + xi                *)
(* which is evaluated only when yi # yj; on integer coordinates the         *)
(* comparison is the exact one below (multiply through by yj - yi).         *)
(***************************************************************************)
EdgeCrosses(p, a, b) ==
    /\ (a.y > p.y) # (b.y > p.y)
    /\ LET d == b.y - a.y
           lhs == (p.x - a.x) * d
           rhs == (b.x - a.x) * (p.y - a.y)
       IN  IF d > 0 THEN lhs < rhs ELSE lhs > rhs

isPointInContour(p, c) ==
    LET n == Len(c)
        crossing == {i \in 1..n : EdgeCrosses(p, c[i], c[IF i = 1 THEN n ELSE i - 1])}
    IN  Cardinality(crossing) % 2 = 1

(***************************************************************************)
(* simplify(points, tolerance) of simplify-js 1.2.4 (loaded by index.html;  *)
(* the library is not part of the repository).  Radial-distance pass, then  *)
(* Douglas-Peucker, both against tolerance^2.  The tolerance is given in    *)
(* units of 1/20, so tolerance^2 = t*t/400.  Distances are exact rationals. *)
(***************************************************************************)
\* a > b for rationals <<num, den>>, den > 0: whole parts first, then the
\* remainders, which keeps every product small
RatGT(a, b) ==
    LET qa == a[1] \div a[2]
        qb == b[1] \div b[2]
    IN  IF qa # qb THEN qa > qb
        ELSE (a[1] % a[2]) * b[2] > (b[1] % b[2]) * a[2]

SqTolerance(t) == <<t * t, 400>>

getSqDist(p1, p2) ==
    <<(p1.x - p2.x) * (p1.x - p2.x) + (p1.y - p2.y) * (p1.y - p2.y), 1>>

getSqSegDist(p, p1, p2) ==
    LET dx   == p2.x - p1.x
        dy   == p2.y - p1.y
        len2 == dx * dx + dy * dy
        dot  == (p.x - p1.x) * dx + (p.y - p1.y) * dy
        crs  == (p.x - p1.x) * dy - (p.y - p1.y) * dx
    IN  IF len2 = 0 THEN getSqDist(p, p1)
        ELSE IF dot > len2 THEN getSqDist(p, p2)
        ELSE IF dot > 0 THEN <<crs * crs, len2>>
        ELSE getSqDist(p, p1)

RECURSIVE RadialFrom(_, _, _, _)
\* the for loop of simplifyRadialDist from index i on; prev is the index last kept
RadialFrom(points, i, prev, sqTol) ==
    IF i > Len(points)
    THEN IF prev # Len(points) THEN <<points[Len(points)]>> ELSE <<>>
    ELSE IF RatGT(getSqDist(points[i], points[prev]), sqTol)
         THEN <<points[i]>> \o RadialFrom(points, i + 1, i, sqTol)
         ELSE RadialFrom(points, i + 1, prev, sqTol)

simplifyRadialDist(points, sqTol) ==
    <<points[1]>> \o RadialFrom(points, 2, 1, sqTol)

RECURSIVE simplifyDPStep(_, _, _, _)
\* the points pushed by simplifyDPStep(points, first, last, sqTolerance, simplified)
simplifyDPStep(points, first, last, sqTol) ==
    LET d(i) == getSqSegDist(points[i], points[first], points[last])
        \* the first index whose distance is the largest one over sqTol
        farthest(over) == CHOOSE i \in over :
                              /\ \A j \in over : ~RatGT(d(j), d(i))
                              /\ \A j \in over : j < i => RatGT(d(i), d(j))
        split(index) == (IF index - first > 1
                         THEN simplifyDPStep(points, first, index, sqTol) ELSE <<>>)
                        \o <<points[index]>>
                        \o (IF last - index > 1
                            THEN simplifyDPStep(points, index, last, sqTol) ELSE <<>>)
    IN  The({IF over = {} THEN <<>> ELSE The({split(index) : index \in {farthest(over)}}) :
             over \in {{i \in (first + 1)..(last - 1) : RatGT(d(i), sqTol)}}})

simplifyDouglasPeucker(points, sqTol) ==
    <<points[1]>> \o simplifyDPStep(points, 1, Len(points), sqTol)
                  \o <<points[Len(points)]>>

simplify(points, t) ==
    IF Len(points) <= 2 THEN points
    ELSE The({simplifyDouglasPeucker(radial, SqTolerance(t)) :
              radial \in {simplifyRadialDist(points, SqTolerance(t))}})

(***************************************************************************)
(* The tolerance handed to simplify, in units of 1/20.                      *)
(*   options.ltres (vectorize, line 222)  = max(0.1, (11 - s) / 10)         *)
(*   vectorizeImageData (lines 349-350)   = ltres < 1 ? ltres / 2 : s / 20  *)
(*   fallbackVectorize (lines 583-585)    = ltres defined ? max(0.3, ltres) *)
(*                                          : max(0.5, (alphamax||1)*s/5)   *)
(* ltres is kept in units of 1/10.  alphamax is the slider default, 1.      *)
(***************************************************************************)
DefaultLtres10(s) == Max(1, 11 - s)

ImageTracerTolerance(ltres10, s) == IF ltres10 < 10 THEN ltres10 ELSE s

FallbackTolerance(opts, s) ==
    LET alphamax == IF Has(opts, "alphamax") /\ opts.alphamax # 0 THEN opts.alphamax ELSE 1
    IN  IF Has(opts, "ltres10") THEN Max(6, 2 * opts.ltres10) ELSE Max(10, 4 * alphamax * s)

(***************************************************************************)
(* Array.prototype.sort with a comparator that orders by key, descending.   *)
(* The sort is stable: equal keys keep their order.                         *)
(***************************************************************************)
SortDescByKey(recs, keys) ==
    LET n == Len(recs)
        rank(i) == 1 + Cardinality({j \in 1..n :
                        keys[j] > keys[i] \/ (keys[j] = keys[i] /\ j < i)})
    IN  [r \in 1..n |-> recs[CHOOSE i \in 1..n : rank(i) = r]]

(***************************************************************************)
(* Extruder.createModel (extruder.js:99-251)                                *)
(***************************************************************************)
tinyShapeThreshold == 10

analyzeContour(c) ==
    [isHole |-> ShoelaceSum(c) < 0, area2 |-> Abs(ShoelaceSum(c)), points |-> c]

\* lines 135-138: map, then sort by area, largest first
analyzedContours(contourList) ==
    The({SortDescByKey(a, [i \in 1..Len(a) |-> a[i].area2]) :
         a \in {[i \in 1..Len(contourList) |-> analyzeContour(contourList[i])]}})

\* indices (into the analyzed list) of the records that pass the filter, in order
RECURSIVE IndicesWhere(_, _, _)
IndicesWhere(analyzed, wantHole, i) ==
    IF i > Len(analyzed) THEN <<>>
    ELSE (IF analyzed[i].isHole = wantHole THEN <<i>> ELSE <<>>)
         \o IndicesWhere(analyzed, wantHole, i + 1)

\* lines 155-160: the holes pushed to one external's shape
HolesOf(analyzed, e, holeIdx) ==
    LET inside(h) == isPointInContour(analyzed[h].points[1], analyzed[e].points)
        RECURSIVE Pick(_)
        Pick(k) == IF k > Len(holeIdx) THEN <<>>
                   ELSE (IF inside(holeIdx[k]) THEN <<holeIdx[k]>> ELSE <<>>) \o Pick(k + 1)
    IN  Pick(1)

\* lines 141-163.  ext and holeIds are the positions of the contours in the
\* analyzed list; external and holes are what the code stores.
shapesWithHoles(analyzed) ==
    LET shape(e, ids) == [ext      |-> e,
                          external |-> analyzed[e].points,
                          holeIds  |-> ids,
                          holes    |-> [m \in 1..Len(ids) |-> analyzed[ids[m]].points]]
    IN  The({[k \in 1..Len(extIdx) |->
                 The({shape(extIdx[k], ids) : ids \in {HolesOf(analyzed, extIdx[k], holeIdx)}})] :
             extIdx \in {IndicesWhere(analyzed, FALSE, 1)},
             holeIdx \in {IndicesWhere(analyzed, TRUE, 1)}})

\* lines 165-170: calculateContourArea(shape.external) > tinyShapeThreshold
IsValidShape(shape) == calculateContourArea2(shape.external) > 2 * tinyShapeThreshold

\* new THREE.ExtrudeGeometry(threeShape, {steps: 1, depth, bevelEnabled: false})
\* (line 221; three.js r132): the number of triangles of the geometry of a simple
\* polygon with holes.  A closing point equal to the first is dropped; the two
\* caps have V + 2H - 2 triangles each, every edge gets two wall triangles.
VertexCount(c) == IF Len(c) > 1 /\ c[1] = c[Len(c)] THEN Len(c) - 1 ELSE Len(c)

ExtrudeTriangles(shape) ==
    LET v == VertexCount(shape.external)
             + SumSeq([m \in 1..Len(shape.holes) |-> VertexCount(shape.holes[m])])
        h == Len(shape.holes)
    IN  2 * (v + 2 * h - 2) + 2 * v

\* lines 173-245: one mesh per valid shape
MeshOf(shape, originalHeight) ==
    [contours    |-> <<shape.external>> \o shape.holes,
     imageHeight |-> originalHeight,
     triangles   |-> ExtrudeTriangles(shape)]

\* lines 100-103: the guard of createModel
NoContours(contourData) ==
    contourData = NULL \/ ~Has(contourData, "contours") \/ Len(contourData.contours) = 0

CreateModel(contourData) ==
    /\ IF NoContours(contourData)
       THEN /\ ret' = [op |-> "createModel", input |-> contourData, value |-> NULL]
            /\ UNCHANGED <<meshes, shapes>>
       ELSE \E analyzed \in {analyzedContours(contourData.contours)} :
            \E swh \in {shapesWithHoles(analyzed)} :
            \E valid \in {SelectSeq(swh, IsValidShape)} :
            \E built \in {[k \in 1..Len(valid) |-> MeshOf(valid[k], contourData.height)]} :
                /\ meshes' = built
                /\ shapes' = [analyzed |-> analyzed, list |-> swh]
                /\ ret' = [op |-> "createModel", input |-> contourData,
                           value |-> IF Len(built) > 0 THEN built[1] ELSE NULL]

\* Extruder.cleanup (extruder.js:75-91)
Cleanup ==
    /\ meshes' = <<>>
    /\ ret' = [op |-> "cleanup", input |-> NULL, value |-> NULL]
    /\ UNCHANGED shapes

(***************************************************************************)
(* THREE.STLExporter.parse (extruder.js:466-598) and Extruder.exportSTL     *)
(* (extruder.js:328-357).  options is NULL (no argument: options || {}) or  *)
(* a record.                                                                *)
(***************************************************************************)
toBinarySTL(nTriangles) ==
    [kind |-> "ArrayBuffer", byteLength |-> 84 + 50 * nTriangles, triangleCount |-> nTriangles]

\* DataView.setUint8 / setUint16 / setUint32 / setFloat32: the bytes written at
\* byteOffset, in the order of increasing address.  A view is a function
\* from byte offsets to bytes.
SetBytes(view, byteOffset, bytes) ==
    [i \in DOMAIN view |->
        IF i >= byteOffset /\ i < byteOffset + Len(bytes) THEN bytes[i - byteOffset + 1] ELSE view[i]]

Uint32BytesBigEndian(value, littleEndian) ==
    <<value \div 2^24, (value \div 2^16) % 256, (value \div 2^8) % 256, value % 256>>

Uint32Bytes(value, littleEndian) ==
    IF littleEndian
    THEN <<value % 256, (value \div 2^8) % 256, (value \div 2^16) % 256, value \div 2^24>>
    ELSE <<value \div 2^24, (value \div 2^16) % 256, (value \div 2^8) % 256, value % 256>>

Uint16Bytes(value, littleEndian) ==
    IF littleEndian THEN <<value % 256, value \div 2^8>> ELSE <<value \div 2^8, value % 256>>

\* the IEEE-754 single of a whole number of magnitude below 2^24 (exact)
Float32Exponent(a) == CHOOSE e \in 0..23 : 2^e <= a /\ a < 2^(e + 1)

Float32Bytes(value, littleEndian) ==
    LET a  == Abs(value)
        e  == Float32Exponent(a)
        m  == a * 2^(23 - e) - 2^23
        ex == e + 127
        s  == IF value < 0 THEN 1 ELSE 0
        be == IF value = 0 THEN <<0, 0, 0, 0>>
              ELSE <<s * 128 + ex \div 2, (ex % 2) * 128 + m \div 2^16, (m \div 2^8) % 256, m % 256>>
    IN  IF littleEndian THEN Reverse(be) ELSE be

Vector3Bytes(v) ==
    Float32Bytes(v.x, TRUE) \o Float32Bytes(v.y, TRUE) \o Float32Bytes(v.z, TRUE)

\* lines 520-536: the body of triangles.forEach; gives the view and the offset after it
WriteTriangle(view, offset, triangle) ==
    LET afterNormal == SetBytes(view, offset, Vector3Bytes(triangle.normal))
        afterVertices ==
            SetBytes(afterNormal, offset + 12,
                     Vector3Bytes(triangle.vertices[1]) \o Vector3Bytes(triangle.vertices[2])
                     \o Vector3Bytes(triangle.vertices[3]))
    IN  [view |-> SetBytes(afterVertices, offset + 48, Uint16Bytes(0, TRUE)), offset |-> offset + 50]

RECURSIVE WriteTriangles(_, _, _, _)
WriteTriangles(view, offset, triangles, k) ==
    IF k > Len(triangles) THEN [view |-> view, offset |-> offset]
    ELSE \* the view is evaluated once per triangle
         The({WriteTriangles(w.view, w.offset, triangles, k + 1) :
                 w \in {WriteTriangle(view, offset, triangles[k])}})

\* lines 505-541: toBinarySTL with the bytes it writes; offset is the local
\* variable of that name when the function returns
toBinarySTLBytes(triangles) ==
    LET bufferSize == 84 + 50 * Len(triangles)
        buffer     == [i \in 0..(bufferSize - 1) |-> 0]
        header     == SetBytes(buffer, 0, [i \in 1..80 |-> 0])
        counted    == SetBytes(header, 80, Uint32Bytes(Len(triangles), TRUE))
    IN  The({[kind |-> "ArrayBuffer", byteLength |-> bufferSize, bytes |-> w.view, offset |-> w.offset] :
                w \in {WriteTriangles(Tabulated(counted), 84, triangles, 1)}})

BinaryOption(options) ==
    IF Has(options, "binary") THEN options.binary ELSE FALSE

STLExporterParse(meshList, options) ==
    LET nTriangles == SumSeq([k \in 1..Len(meshList) |-> meshList[k].triangles])
    IN  IF BinaryOption(options) THEN toBinarySTL(nTriangles) ELSE NULL

\* new Blob([part], {type}): an ArrayBuffer part contributes its bytes; any other
\* value is converted to a string first, and null becomes the 4 characters "null".
Blob(part, type) ==
    IF part = NULL
    THEN [type |-> type, size |-> 4, content |-> [kind |-> "text", text |-> "null"]]
    ELSE [type |-> type, size |-> part.byteLength, content |-> part]

\* exportSTL without its guard (lines 329-331)
ExportSTLUnguarded ==
    /\ ret' = [op |-> "exportSTL", input |-> NULL,
               value |-> Blob(STLExporterParse(meshes, NULL), "application/octet-stream")]
    /\ UNCHANGED <<meshes, shapes>>

ExportSTL ==
    /\ IF Len(meshes) = 0
       THEN ret' = [op |-> "exportSTL", input |-> NULL, value |-> [error |-> "Aucun modele a exporter"]]
       ELSE ret' = [op |-> "exportSTL", input |-> NULL,
                    value |-> Blob(STLExporterParse(meshes, NULL), "application/octet-stream")]
    /\ UNCHANGED <<meshes, shapes>>

(***************************************************************************)
(* Extruder.createDXF (extruder.js:400-433) and Extruder.exportDXF          *)
(* (extruder.js:363-392).  The text is kept as its sequence of lines.       *)
(***************************************************************************)
DXFLineUnflipped(a, b, imageHeight) ==
    <<"0", "LINE", "8", "0",
      "10", a.x, "20", a.y, "30", "0",
      "11", b.x, "21", b.y, "31", "0">>

DXFLine(a, b, imageHeight) ==
    <<"0", "LINE", "8", "0",
      "10", a.x, "20", imageHeight - a.y, "30", "0",
      "11", b.x, "21", imageHeight - b.y, "31", "0">>

DXFContourClosed(c, imageHeight) ==
    IF Len(c) < 2 THEN <<>>
    ELSE Flatten([i \in 1..Len(c) |-> DXFLine(c[i], c[(i % Len(c)) + 1], imageHeight)])

DXFContour(c, imageHeight) ==
    IF Len(c) < 2 THEN <<>>
    ELSE Flatten([i \in 1..(Len(c) - 1) |-> DXFLine(c[i], c[i + 1], imageHeight)])

createDXF(contourList, imageHeight) ==
    <<"0", "SECTION", "2", "ENTITIES">>
    \o Flatten([k \in 1..Len(contourList) |-> DXFContour(contourList[k], imageHeight)])
    \o <<"0", "ENDSEC", "0", "EOF">>

\* lines 370-379: imageHeight is that of the last mesh whose imageHeight is truthy
RECURSIVE LastImageHeight(_, _)
LastImageHeight(meshList, k) ==
    IF k = 0 THEN 0
    ELSE IF meshList[k].imageHeight # 0 THEN meshList[k].imageHeight
    ELSE LastImageHeight(meshList, k - 1)

ExportDXF ==
    /\ \E all \in {Flatten([k \in 1..Len(meshes) |-> meshes[k].contours])} :
           IF Len(meshes) = 0
           THEN ret' = [op |-> "exportDXF", input |-> NULL, value |-> [error |-> "Aucun contour a exporter"]]
           ELSE IF Len(all) = 0
           THEN ret' = [op |-> "exportDXF", input |-> NULL,
                        value |-> [error |-> "Aucun contour disponible pour l'exportation DXF"]]
           ELSE ret' = [op |-> "exportDXF", input |-> NULL,
                        value |-> [type |-> "application/dxf",
                                   content |-> createDXF(all, LastImageHeight(meshes, Len(meshes)))]]
    /\ UNCHANGED <<meshes, shapes>>

(***************************************************************************)
(* The arithmetic of line 90: 0.299 * r + 0.587 * g + 0.114 * b on IEEE-754 *)
(* doubles, rounding to nearest, ties to even, after each operation.  Every *)
(* value met is a multiple of 2^-56 below 2^8, kept as that multiple in 4   *)
(* limbs of 20 bits, least significant first.                               *)
(***************************************************************************)
Limb == 2^20

BigNorm(a) ==
    LET carry[i \in 0..4] == IF i = 0 THEN 0 ELSE (a[i] + carry[i - 1]) \div Limb
    IN  [i \in 1..4 |-> (a[i] + carry[i - 1]) % Limb]

BigTimes(a, n) == The({BigNorm(p) : p \in {[i \in 1..4 |-> a[i] * n]}})

BigPlus(a, b) == The({BigNorm(p) : p \in {[i \in 1..4 |-> a[i] + b[i]]}})

BigLess(a, b) == \E i \in 1..4 : a[i] < b[i] /\ \A j \in (i + 1)..4 : a[j] = b[j]

\* the number of significant bits
BitLength(a) ==
    IF \A i \in 1..4 : a[i] = 0 THEN 0
    ELSE LET top == CHOOSE i \in 1..4 : a[i] # 0 /\ \A j \in (i + 1)..4 : a[j] = 0
         IN  20 * (top - 1) + (CHOOSE k \in 1..20 : a[top] < 2^k /\ a[top] >= 2^(k - 1))

\* a \div 2^k, for k < 20
ShiftRight(a, k) ==
    [i \in 1..4 |-> (a[i] \div 2^k) + (IF i < 4 THEN (a[i + 1] % 2^k) * 2^(20 - k) ELSE 0)]

\* the nearest value with a significand of 53 bits, ties to even
RoundToDouble(a) ==
    LET rounded(k) ==
            LET rest == a[1] % 2^k
                up(q) == rest > 2^(k - 1) \/ (rest = 2^(k - 1) /\ q[1] % 2 = 1)
            IN  The({The({BigTimes(r, 2^k) :
                          r \in {IF up(q) THEN BigPlus(q, <<1, 0, 0, 0>>) ELSE q}}) :
                     q \in {ShiftRight(a, k)}})
    IN  The({IF k <= 0 THEN a ELSE rounded(k) : k \in {BitLength(a) - 53}})

\* the doubles nearest to 0.299, 0.587 and 0.114, and 1.0
Double299 == <<67108, 276824, 19595, 0>>

Double587 == <<33552, 662700, 38469, 0>>

Double114 == <<947913, 109051, 7471, 0>>

DoubleOne == <<0, 0, 2^16, 0>>

DoubleTimes(c, v) == The({RoundToDouble(p) : p \in {BigTimes(c, v)}})

\* const gray = 0.299 * r + 0.587 * g + 0.114 * b
gray(rgb) ==
    The({The({The({RoundToDouble(sum) : sum \in {BigPlus(rg, pb)}}) :
              rg \in {The({RoundToDouble(sum) : sum \in {BigPlus(pr, pg)}})}}) :
         pr \in {DoubleTimes(Double299, rgb[1])},
         pg \in {DoubleTimes(Double587, rgb[2])},
         pb \in {DoubleTimes(Double114, rgb[3])}})

(***************************************************************************)
(* Vectorizer.calculateArea (vectorizer.js:448-456) and                    *)
(* Extruder.calculateContourArea (extruder.js:258-266) on coordinates that *)
(* are not whole numbers, as parseSVGPath reads them from ImageTracer      *)
(* paths (roundcoords: 1).  A coordinate is a non-negative double, written *)
(* as 14 digits of base 1024 in units of 2^-56; an area is a sign and a    *)
(* magnitude of 14 such digits in units of 2^-112.  Every * and + and -    *)
(* rounds to 53 significant bits, ties to even.  The division by 2 that    *)
(* ends both functions is exact and is left out: the operators give twice  *)
(* the area.                                                               *)
(***************************************************************************)
WideNorm(a) ==
    LET carry[i \in 0..14] == IF i = 0 THEN 0 ELSE (a[i] + carry[i - 1]) \div 1024
    IN  [i \in 1..14 |-> (a[i] + carry[i - 1]) % 1024]

WideIsZero(a) == \A i \in 1..14 : a[i] = 0

WideLess(a, b) == \E i \in 1..14 : a[i] < b[i] /\ \A j \in (i + 1)..14 : a[j] = b[j]

WidePlus(a, b) == The({WideNorm(s) : s \in {[i \in 1..14 |-> a[i] + b[i]]}})

\* a - b for a >= b
WideMinus(a, b) == The({WideNorm(s) : s \in {[i \in 1..14 |-> a[i] - b[i]]}})

WideTimes(a, b) ==
    The({WideNorm(s) :
         s \in {[c \in 1..14 |-> SumSeq([i \in 1..c |-> a[i] * b[c - i + 1]])]}})

WideBit(a, n) == (a[(n \div 10) + 1] \div 2^(n % 10)) % 2

WideBitLength(a) ==
    IF WideIsZero(a) THEN 0
    ELSE LET top == CHOOSE i \in 1..14 : a[i] # 0 /\ \A j \in (i + 1)..14 : a[j] = 0
         IN  10 * (top - 1) + (CHOOSE k \in 1..10 : a[top] < 2^k /\ a[top] >= 2^(k - 1))

\* the nearest magnitude with a significand of 53 bits, ties to even
WideRound(a) ==
    LET rounded(k) ==
            LET d     == (k \div 10) + 1
                r     == k % 10
                trunc == [i \in 1..14 |-> IF i < d THEN 0
                                          ELSE IF i = d THEN (a[i] \div 2^r) * 2^r
                                          ELSE a[i]]
                up    == /\ WideBit(a, k - 1) = 1
                         /\ \/ WideBit(a, k) = 1
                            \/ \E n \in 0..(k - 2) : WideBit(a, n) = 1
            IN  IF up
                THEN The({WideNorm(s) :
                          s \in {[i \in 1..14 |-> trunc[i] + (IF i = d THEN 2^r ELSE 0)]}})
                ELSE trunc
    IN  The({IF k <= 0 THEN a ELSE rounded(k) : k \in {WideBitLength(a) - 53}})

Float64(negative, magnitude) == [neg |-> negative /\ ~WideIsZero(magnitude), mag |-> magnitude]

\* x * y of two coordinates
Float64Times(x, y) == The({Float64(FALSE, WideRound(p)) : p \in {WideTimes(x, y)}})

Float64Negate(u) == Float64(~u.neg, u.mag)

Float64Plus(u, v) ==
    IF u.neg = v.neg THEN The({Float64(u.neg, WideRound(s)) : s \in {WidePlus(u.mag, v.mag)}})
    ELSE IF WideLess(u.mag, v.mag)
    THEN The({Float64(v.neg, WideRound(s)) : s \in {WideMinus(v.mag, u.mag)}})
    ELSE The({Float64(u.neg, WideRound(s)) : s \in {WideMinus(u.mag, v.mag)}})

Float64Minus(u, v) == Float64Plus(u, Float64Negate(v))

\* the loop of lines 449-454 (258-264 in extruder.js): area after i iterations
RECURSIVE AreaAfter(_, _)
AreaAfter(pts, i) ==
    IF i = 0 THEN Float64(FALSE, [k \in 1..14 |-> 0])
    ELSE The({Float64Minus(Float64Plus(before, Float64Times(pts[i].x, pts[j].y)),
                           Float64Times(pts[j].x, pts[i].y)) :
              before \in {AreaAfter(pts, i - 1)}, j \in {(i % Len(pts)) + 1}})

\* twice Vectorizer.calculateArea(pts)
calculateArea(pts) == AreaAfter(pts, Len(pts))

\* twice Extruder.calculateContourArea(pts): Math.abs
calculateContourArea(pts) ==
    The({Float64(FALSE, area.mag) : area \in {AreaAfter(pts, Len(pts))}})

(***************************************************************************)
(* Vectorizer.applyThreshold (vectorizer.js:76-100) and                     *)
(* Vectorizer.preprocessImage (vectorizer.js:107-150).  An ImageData is     *)
(* [width, height, data], data[<<x, y>>] = <<r, g, b>>; alpha is left out.  *)
(***************************************************************************)
Cells(w, h) == (0..(w - 1)) \X (0..(h - 1))

\* gray < threshold
IsInk(rgb, t) ==
    The({BigLess(g, limit) : g \in {gray(rgb)}, limit \in {BigTimes(DoubleOne, t)}})

\* binaryData[i] = binaryData[i + 1] = binaryData[i + 2] = value
applyThreshold(img, t) ==
    [width |-> img.width, height |-> img.height,
     data |-> Tabulated([c \in Cells(img.width, img.height) |->
                  IF IsInk(img.data[c], t) THEN <<0, 0, 0>> ELSE <<255, 255, 255>>])]

Neighbourhood == {<<dx, dy>> : dx \in {-1, 0, 1}, dy \in {-1, 0, 1}}

\* neighbors.sort((a, b) => a - b)[4] of the 9 values processed[nidx] around c
\* (the first channel)
Median9(data, c) ==
    LET at(d) == data[<<c[1] + d[1], c[2] + d[2]>>][1]
        below(v) == Cardinality({d \in Neighbourhood : at(d) < v})
        upto(v)  == Cardinality({d \in Neighbourhood : at(d) <= v})
    IN  CHOOSE v \in {at(d) : d \in Neighbourhood} : below(v) <= 4 /\ upto(v) >= 5

\* line 142, with a margin of 1 pixel
IsBorderPixelOfOne(c, w, h) == c[1] < 1 \/ c[2] < 1 \/ c[1] >= w - 1 \/ c[2] >= h - 1

\* line 142
IsBorderPixel(c, w, h) == c[1] < 2 \/ c[2] < 2 \/ c[1] >= w - 2 \/ c[2] >= h - 2

preprocessImage(img) ==
    [width |-> img.width, height |-> img.height,
     data |-> Tabulated([c \in Cells(img.width, img.height) |->
                  IF IsBorderPixel(c, img.width, img.height) THEN <<255, 255, 255>>
                  ELSE The({<<median, median, median>> : median \in {Median9(img.data, c)}})])]

(***************************************************************************)
(* Vectorizer.smoothImage (vectorizer.js:703-732).  A 2D boolean array is   *)
(* kept as the set of its true cells <<x, y>>.                              *)
(***************************************************************************)
smoothImage(img, w, h, thr) ==
    {c \in (1..(w - 2)) \X (1..(h - 2)) :
        LET blackCount == Cardinality({d \in Neighbourhood :
                                         <<c[1] + d[1], c[2] + d[2]>> \in img})
        IN  IF c \in img THEN blackCount > thr ELSE blackCount >= 9 - thr}

(***************************************************************************)
(* Vectorizer.isPotentialBoundary (vectorizer.js:838-854)                   *)
(***************************************************************************)
isPotentialBoundary(img, x, y, w, h) ==
    /\ ~(x <= 0 \/ x >= w - 1 \/ y <= 0 \/ y >= h - 1)
    /\ <<x, y>> \in img
    /\ \/ <<x, y - 1>> \notin img
       \/ <<x, y + 1>> \notin img
       \/ <<x - 1, y>> \notin img
       \/ <<x + 1, y>> \notin img

(***************************************************************************)
(* Vectorizer.findContoursImproved (vectorizer.js:742-827), step by step.   *)
(* scan is the raster index y * width + x the two for loops have reached.   *)
(***************************************************************************)
TraceCap == 10000

directions == << <<1, 0>>, <<1, 1>>, <<0, 1>>, <<-1, 1>>,
                 <<-1, 0>>, <<-1, -1>>, <<0, -1>>, <<1, -1>> >>

RasterIndex(c) == c[2] * width + c[1]

\* line 758: the cells at which the for loops start a trace
IsTraceStart(c) ==
    /\ c \in binaryImage
    /\ c \notin visited
    /\ isPotentialBoundary(binaryImage, c[1], c[2], width, height)

IsNextPointRevisiting(c) ==
    /\ ~(c[1] < 0 \/ c[1] >= width \/ c[2] < 0 \/ c[2] >= height)
    /\ c \in binaryImage
    /\ isPotentialBoundary(binaryImage, c[1], c[2], width, height)

\* lines 783-790: a neighbour the walk may move to
IsNextPoint(c) ==
    /\ ~(c[1] < 0 \/ c[1] >= width \/ c[2] < 0 \/ c[2] >= height)
    /\ c \in binaryImage
    /\ c \notin visited
    /\ isPotentialBoundary(binaryImage, c[1], c[2], width, height)

\* line 808: the condition of the do-while loop
LoopContinuesOffByOne(len, cap) == len <= cap

LoopContinues(len, cap) == len < cap

\* lines 810-821: what is pushed to contours when the loop has ended
ClosedContour(c) ==
    IF c[1] # c[Len(c)] THEN Append(c, c[1]) ELSE c

FinishedContoursOfAnyLength(c) ==
    Append(contours, IF isInverted THEN Reverse(ClosedContour(c)) ELSE ClosedContour(c))

FinishedContours(c) ==
    IF Len(c) >= 3
    THEN Append(contours, IF isInverted THEN Reverse(ClosedContour(c)) ELSE ClosedContour(c))
    ELSE contours

\* lines 755-768: the for loops run on to the next start cell, or to the end
ScanToNext ==
    /\ tpc = "scan"
    /\ \E starts \in {{c \in (1..(width - 2)) \X (1..(height - 2)) :
                             RasterIndex(c) >= scan /\ IsTraceStart(c)}} :
           IF starts = {}
           THEN /\ tpc' = "done"
                /\ UNCHANGED <<visited, contour, scan>>
           ELSE \E c \in {s \in starts : \A o \in starts : RasterIndex(s) <= RasterIndex(o)} :
                    /\ visited' = visited \cup {c}
                    /\ contour' = <<Pt(c[1], c[2])>>
                    /\ scan' = RasterIndex(c) + 1
                    /\ tpc' = "trace"
    /\ UNCHANGED <<binaryImage, width, height, isInverted, maxPoints, contours>>

\* lines 773-821: one iteration of the do-while loop, and what follows its end
TraceStep ==
    /\ tpc = "trace"
    /\ LET cur   == contour[Len(contour)]
           nxt(i) == <<cur.x + directions[i][1], cur.y + directions[i][2]>>
       IN  \E found \in {{i \in 1..8 : IsNextPoint(nxt(i))}} :
           IF found = {}
           THEN /\ contours' = FinishedContours(contour)
                /\ contour' = <<>>
                /\ tpc' = "scan"
                /\ UNCHANGED visited
           ELSE \E c \in {nxt(i) : i \in {k \in found : \A o \in found : k <= o}} :
                LET walked == Append(contour, Pt(c[1], c[2]))
                    back == c[1] = contour[1].x /\ c[2] = contour[1].y
                IN  /\ visited' = visited \cup {c}
                    /\ IF ~back /\ LoopContinues(Len(walked), maxPoints)
                       THEN /\ contour' = walked
                            /\ UNCHANGED <<contours, tpc>>
                       ELSE /\ contours' = FinishedContours(walked)
                            /\ contour' = <<>>
                            /\ tpc' = "scan"
    /\ UNCHANGED <<binaryImage, width, height, isInverted, maxPoints, scan>>

(***************************************************************************)
(* Vectorizer.isFrameContour (vectorizer.js:157-185).  w, h are this.width  *)
(* and this.height.  areaRatio > 0.90 is 10 * contourArea > 9 * imageArea.  *)
(***************************************************************************)
MinOf(S) == CHOOSE v \in S : \A o \in S : v <= o

MaxOf(S) == CHOOSE v \in S : \A o \in S : v >= o

MinLen(c) == Len(c) >= 4

AreaRatioOver(contourArea, imageArea) == 10 * contourArea > 9 * imageArea

isFrameContour(c, w, h) ==
    IF ~MinLen(c) THEN FALSE
    ELSE LET minX == MinOf({c[i].x : i \in 1..Len(c)})
             minY == MinOf({c[i].y : i \in 1..Len(c)})
             maxX == MaxOf({c[i].x : i \in 1..Len(c)})
             maxY == MaxOf({c[i].y : i \in 1..Len(c)})
             isNearBorder == minX < 5 /\ minY < 5 /\ maxX > w - 5 /\ maxY > h - 5
         IN  AreaRatioOver((maxX - minX) * (maxY - minY), w * h) /\ isNearBorder

(***************************************************************************)
(* Vectorizer.processContours (vectorizer.js:634-657) and                   *)
(* Vectorizer.organizeContours (vectorizer.js:665-693)                      *)
(***************************************************************************)
\* !pathomit || contour.length >= pathomit
PathomitAllows(opts, len) ==
    ~Has(opts, "pathomit") \/ opts.pathomit = 0 \/ len >= opts.pathomit

processContours(contourList, turdsize, tol, opts, isHole, w, h) ==
    LET bigEnough(c) == Abs(calculateArea2(c)) >= 2 * turdsize
        keep(c)      == Len(c) >= 3 /\ ~isFrameContour(c, w, h) /\ PathomitAllows(opts, Len(c))
    IN  The({[k \in 1..Len(kept2) |-> IF isHole THEN Reverse(kept2[k]) ELSE kept2[k]] :
             kept2 \in {SelectSeq(The({[k \in 1..Len(kept) |-> simplify(kept[k], tol)] :
                                        kept \in {SelectSeq(contourList, bigEnough)}}),
                                   keep)}})

organizeContours(external, internal) ==
    LET pushed(hole) ==
            IF Len(hole) < 3 THEN <<>>
            ELSE IF \E k \in 1..Len(external) : isPointInContour(hole[1], external[k])
                 THEN <<hole>>      \* line 680
                 ELSE <<hole>>      \* line 688
    IN  external \o Flatten([k \in 1..Len(internal) |-> pushed(internal[k])])

(***************************************************************************)
(* Vectorizer.fallbackVectorize (vectorizer.js:485-623)                     *)
(***************************************************************************)
PreserveHoles(opts) == IF Has(opts, "preserveholes") THEN opts.preserveholes ELSE TRUE

BlurThreshold(opts) == IF Has(opts, "blurdelta") THEN opts.blurdelta \div 10 ELSE 2

Turdsize(opts) == IF Has(opts, "turdsize") THEN opts.turdsize ELSE 2

\* lines 520-541: the padded arrays; 550: the smoothing of each
PaddedInk(processed) ==
    {<<c[1] + 2, c[2] + 2>> : c \in {k \in Cells(processed.width, processed.height) :
                                        processed.data[k][1] = 0}}

PaddedWhite(processed) ==
    {<<c[1] + 2, c[2] + 2>> : c \in {k \in Cells(processed.width, processed.height) :
                                        processed.data[k][1] # 0}}

Processed(t) == The({preprocessImage(binary) : binary \in {applyThreshold(imageData, t)}})

smoothedImage(t, opts) ==
    The({smoothImage(padded, imageData.width + 4, imageData.height + 4, BlurThreshold(opts)) :
         padded \in {The({PaddedInk(processed) : processed \in {Processed(t)}})}})

smoothedInverted(t, opts) ==
    The({smoothImage(padded, imageData.width + 4, imageData.height + 4, BlurThreshold(opts)) :
         padded \in {The({PaddedWhite(processed) : processed \in {Processed(t)}})}})

\* lines 556-561, 571-576
Adjusted(contourList) ==
    [k \in 1..Len(contourList) |->
        [i \in 1..Len(contourList[k]) |->
            Pt(contourList[k][i].x - 2, contourList[k][i].y - 2)]]

\* a call of findContoursImproved(buffer, paddedWidth, paddedHeight, inverted) begins
BeginTrace(buffer, inverted) ==
    /\ binaryImage' = buffer
    /\ width' = imageData.width + 4
    /\ height' = imageData.height + 4
    /\ isInverted' = inverted
    /\ visited' = {}
    /\ scan' = 0
    /\ tpc' = "scan"
    /\ contour' = <<>>
    /\ contours' = <<>>
    /\ UNCHANGED maxPoints

\* fallbackVectorize up to the first call of findContoursImproved (lines 485-553)
BeginFallback(t, opts) ==
    /\ phase' = "external"
    /\ advancedOptions' = opts
    /\ externalContours' = <<>>
    /\ BeginTrace(smoothedImage(t, opts), FALSE)
    /\ UNCHANGED vectorData

\* lines 579-622, with the results of the two tracer calls
FinishFallback(extRaw, intRaw) ==
    LET opts  == advancedOptions
        w     == imageData.width
        h     == imageData.height
        tol   == FallbackTolerance(opts, simplification)
    IN  \E adjE \in {Adjusted(extRaw)}, adjI \in {Adjusted(intRaw)} :
        \E fExt \in {processContours(adjE, Turdsize(opts), tol, opts, FALSE, w, h)},
           fInt \in {IF PreserveHoles(opts)
                     THEN processContours(adjI, Turdsize(opts), tol, opts, TRUE, w, h)
                     ELSE <<>>} :
        LET all == IF PreserveHoles(opts) THEN organizeContours(fExt, fInt) ELSE fExt
            \* the contours that pass the filter of lines 637-645 and reach line 647
            simplified ==
                {c \in Range(adjE) \cup (IF PreserveHoles(opts) THEN Range(adjI) ELSE {}) :
                    Abs(calculateArea2(c)) >= 2 * Turdsize(opts)}
            simplifyCalled == simplified # {}
        IN
        /\ vectorData' = [contours |-> all, width |-> w, height |-> h]
        /\ tolLog' = [(IF simplifyCalled
                       THEN [tolLog EXCEPT !.fallback = [level |-> simplification, tol |-> tol]]
                       ELSE tolLog)
                      EXCEPT !.passed = @ \cup {Len(c) : c \in simplified}]
        /\ phase' = "idle"
        /\ ret' = [op |-> "vectorize", input |-> NULL, value |-> [resolved |-> TRUE]]

\* the first tracer call has returned (line 553)
FallbackExternalDone ==
    /\ phase = "external"
    /\ tpc = "done"
    /\ externalContours' = contours
    /\ IF PreserveHoles(advancedOptions)
       THEN /\ BeginTrace(smoothedInverted(threshold, advancedOptions), TRUE)
            /\ phase' = "internal"
            /\ UNCHANGED <<vectorData, tolLog, ret>>
       ELSE /\ FinishFallback(contours, <<>>)
            /\ UNCHANGED tracerVars
    /\ UNCHANGED <<imageData, threshold, simplification, imageTracer, allContours,
                   advancedOptions, meshes, shapes, app>>

\* the second tracer call has returned (line 566)
FallbackInternalDone ==
    /\ phase = "internal"
    /\ tpc = "done"
    /\ FinishFallback(externalContours, contours)
    /\ UNCHANGED <<imageData, threshold, simplification, imageTracer, allContours,
                   advancedOptions, externalContours, tracerVars, meshes, shapes, app>>

(***************************************************************************)
(* Vectorizer.vectorize (vectorizer.js:194-287) and                         *)
(* Vectorizer.vectorizeImageData (vectorizer.js:296-441).                   *)
(*                                                                          *)
(* imageTracer stands for the ImageTracer library: not available            *)
(* (typeof ImageTracer === 'undefined'), or available and yielding, for     *)
(* the loaded image, the paths of its SVG: each a fill colour (white or     *)
(* not) and the points parseSVGPath extracts from its d attribute.          *)
(***************************************************************************)
\* lines 220-254: the options object built from advancedOptions
ImageTracerOptions(adv, s) ==
    [ltres10       |-> IF Has(adv, "ltres10") THEN adv.ltres10 ELSE DefaultLtres10(s),
     pathomit      |-> IF Has(adv, "pathomit") THEN adv.pathomit ELSE Max(1, s),
     turdsize      |-> Turdsize(adv),
     alphamax      |-> IF Has(adv, "alphamax") THEN adv.alphamax ELSE 1,
     blurradius    |-> IF Has(adv, "blurradius") THEN adv.blurradius ELSE 0,
     blurdelta     |-> IF Has(adv, "blurdelta") THEN adv.blurdelta ELSE 20,
     preserveholes |-> PreserveHoles(adv)]

\* line 362: the hole marker of a record
HoleMarker(path, simplified) == path.isWhite

\* lines 328-368: the record pushed for one path, if any.  isWhite is the value
\* of the local isWhite (lines 330-331), kept beside the record's three fields.
PathRecord(path, opts, s, w, h) ==
    IF path.isWhite /\ ~opts.preserveholes THEN <<>>
    ELSE IF ~(Len(path.points) > 2) THEN <<>>
    ELSE LET pushed(simplified) ==
                 IF Len(simplified) > 2 /\ ~isFrameContour(simplified, w, h)
                    /\ (opts.pathomit = 0 \/ Len(simplified) >= opts.pathomit)
                 THEN << [points |-> simplified,
                          isHole |-> HoleMarker(path, simplified),
                          isWhite |-> path.isWhite,
                          area2  |-> calculateArea2(simplified)] >>
                 ELSE <<>>
         IN  The({pushed(simplified) :
                  simplified \in {simplify(path.points, ImageTracerTolerance(opts.ltres10, s))}})

\* lines 328-371: the records, sorted by |area|, largest first
ClassifiedRecords(paths, opts, s, w, h) ==
    The({SortDescByKey(recs, [k \in 1..Len(recs) |-> Abs(recs[k].area2)]) :
         recs \in {Flatten([k \in 1..Len(paths) |-> PathRecord(paths[k], opts, s, w, h)])}})

\* lines 388-400: the parent of hole record i: the first non-hole record that
\* contains the hole's first point (0: none)
ParentOf(recs, i) ==
    LET cands == {j \in 1..Len(recs) :
                    ~recs[j].isHole /\ isPointInContour(recs[i].points[1], recs[j].points)}
    IN  IF cands = {} THEN 0 ELSE MinOf(cands)

\* line 402: an orphan hole is kept when it has more than 3 points
OrphanKept(points) == Len(points) > 3

\* lines 382-425: the contours resolved
OrganizedContours(recs, preserveholes) ==
    LET n == Len(recs)
        first(i) == IF recs[i].isHole
                    THEN IF ParentOf(recs, i) = 0 /\ OrphanKept(recs[i].points)
                         THEN <<Reverse(recs[i].points)>> ELSE <<>>
                    ELSE <<recs[i].points>>
        holesOf(j) == IF recs[j].isHole THEN <<>>
                      ELSE Flatten([i \in 1..n |->
                              IF recs[i].isHole /\ ParentOf(recs, i) = j
                              THEN <<Reverse(recs[i].points)>> ELSE <<>>])
    IN  IF preserveholes
        THEN Flatten([i \in 1..n |-> first(i)]) \o Flatten([j \in 1..n |-> holesOf(j)])
        ELSE Flatten([i \in 1..n |-> IF recs[i].isHole THEN <<>> ELSE <<recs[i].points>>])

\* line 80 without the throw: an empty buffer comes back
ReturnsEmptyBuffer == [buffer |-> [width |-> 0, height |-> 0, data |-> <<>>]]

\* line 80: throw new Error("Aucune image chargee"), out of applyThreshold and,
\* through line 199, out of vectorize
NoImageLoaded == [error |-> "Aucune image chargee"]

Vectorize(t, s, adv) ==
    /\ phase = "idle"
    /\ threshold' = t
    /\ simplification' = s
    /\ IF imageData = NULL
       THEN /\ ret' = [op |-> "vectorize", input |-> NULL, value |-> NoImageLoaded]
            /\ UNCHANGED <<phase, tracerVars, externalContours, allContours,
                           advancedOptions, tolLog, vectorData>>
       ELSE IF ~imageTracer.available
       THEN /\ BeginFallback(t, adv)
            /\ tolLog' = [tolLog EXCEPT !.passed = {}]
            /\ UNCHANGED <<allContours, ret>>
       ELSE \E opts \in {ImageTracerOptions(adv, s)} :
            \E recs \in {ClassifiedRecords(imageTracer.paths, opts, s,
                                           imageData.width, imageData.height)} :
            LET w     == imageData.width
                h     == imageData.height
                \* the paths that reach line 353
                simplified ==
                    {k \in 1..Len(imageTracer.paths) :
                        /\ ~(imageTracer.paths[k].isWhite /\ ~opts.preserveholes)
                        /\ Len(imageTracer.paths[k].points) > 2}
                simplifyCalled == simplified # {}
            IN  /\ allContours' = recs
                /\ tolLog' = [(IF simplifyCalled
                               THEN [tolLog EXCEPT !.imagetracer =
                                       [level |-> s,
                                        tol   |-> ImageTracerTolerance(opts.ltres10, s)]]
                               ELSE tolLog)
                              EXCEPT !.passed = {Len(imageTracer.paths[k].points) :
                                                 k \in simplified}]
                /\ IF Len(recs) = 0
                   THEN /\ BeginFallback(t, opts)
                        /\ UNCHANGED ret
                   ELSE /\ vectorData' = [contours |-> OrganizedContours(recs, opts.preserveholes),
                                          width |-> w, height |-> h]
                        /\ ret' = [op |-> "vectorize", input |-> NULL,
                                   value |-> [resolved |-> TRUE]]
                        /\ UNCHANGED <<phase, tracerVars, externalContours, advancedOptions>>
    /\ UNCHANGED <<imageData, imageTracer, meshes, shapes>>

(***************************************************************************)
(* Inputs                                                                   *)
(***************************************************************************)
\* app.js:136-145 with the sliders of index.html at their defaults
AppOptions == [turdsize |-> 2, alphamax |-> 1, blurradius |-> 0]

DefaultThreshold == 128

DefaultLevel == 5

Black == <<0, 0, 0>>

White == <<255, 255, 255>>

Image(w, h, ink) ==
    [width |-> w, height |-> h,
     data |-> [c \in Cells(w, h) |-> IF c \in ink THEN Black ELSE White]]

Block(x0, y0, x1, y1) == (x0..x1) \X (y0..y1)

\* a rectangle walked right, down, left, up (positive shoelace sum), closed
Rect(x0, y0, x1, y1) ==
    <<Pt(x0, y0), Pt(x1, y0), Pt(x1, y1), Pt(x0, y1), Pt(x0, y0)>>

Triangle(x0, y0, x1, y1) == <<Pt(x0, y0), Pt(x1, y0), Pt(x0, y1)>>

(***************************************************************************)
(* Bounds and input sets                                                    *)
(***************************************************************************)
MaxPaths == 3

ImageSide == 10

FrameImageSide == 60

TracerWidth == 6

TracerHeight == 4

ScaledCap == 4

RingImageSide == 13

\* the image of the default specification: one 3x3 block of ink
BlockImage == Image(ImageSide, ImageSide, Block(3, 3, 5, 5))

\* the paths ImageTracer may yield: two nested black squares, a third square
\* inside both in either orientation and either colour, and a white triangle
Path(points, isWhite) == [points |-> points, isWhite |-> isWhite]

PathKinds ==
    {Path(Rect(1, 1, 9, 9), FALSE),
     Path(Rect(2, 2, 8, 8), FALSE),
     Path(Rect(3, 3, 7, 7), TRUE),
     Path(Reverse(Rect(3, 3, 7, 7)), TRUE),
     Path(Reverse(Rect(3, 3, 7, 7)), FALSE),
     Path(Triangle(3, 3, 7, 7), TRUE)}

Scenes == UNION {[1..k -> PathKinds] : k \in 0..MaxPaths}

NoImageTracer == [available |-> FALSE]

ImageTracerWith(paths) == [available |-> TRUE, paths |-> paths]

EmptyLog == [imagetracer |-> NULL, fallback |-> NULL, passed |-> {}]

\* new Vectorizer(), new Extruder(), and no call in flight
\* app.js:4-9 and 326-332: the page when the DOMContentLoaded handler has run
AppStart ==
    [processDisabled   |-> TRUE,       \* processBtn.disabled
     exportStlDisabled |-> TRUE,       \* exportStlBtn.disabled
     exportDxfDisabled |-> TRUE,       \* exportDxfBtn.disabled
     canvasAttached    |-> TRUE,       \* renderer.domElement is a child of #model-preview
     vectorData        |-> NULL,       \* let vectorData
     loads             |-> <<>>,       \* loadImage promises not yet settled
     chains            |-> <<>>,       \* processing chains in flight, each at its stage
     webcamContainer   |-> "none",     \* webcamContainer.style.display
     webcamStream      |-> 0,          \* let webcamStream: 0 for null, or a stream
     pendingMedia      |-> 0,          \* getUserMedia promises not yet settled
     live              |-> {},         \* streams whose tracks have not been stopped
     acquired          |-> 0]          \* streams handed out so far

InitObjects ==
    /\ threshold = DefaultThreshold
    /\ simplification = DefaultLevel
    /\ externalContours = <<>>
    /\ allContours = <<>>
    /\ advancedOptions = NULL
    /\ tolLog = EmptyLog
    /\ vectorData = NULL
    /\ meshes = <<>>
    /\ shapes = [analyzed |-> <<>>, list |-> <<>>]
    /\ ret = [op |-> "new", input |-> NULL, value |-> NULL]
    /\ app = AppStart

InitNoTrace ==
    /\ binaryImage = {}
    /\ width = 0
    /\ height = 0
    /\ isInverted = FALSE
    /\ visited = {}
    /\ scan = 0
    /\ tpc = "done"
    /\ contour = <<>>
    /\ contours = <<>>
    /\ maxPoints = TraceCap

\* an image is loaded (loadImage has resolved); ImageTracer, if loaded, yields a scene
Init ==
    /\ InitObjects
    /\ InitNoTrace
    /\ phase = "idle"
    /\ imageData = BlockImage
    /\ imageTracer \in {NoImageTracer} \cup {ImageTracerWith(sc) : sc \in Scenes}

SpecLevels == {1, DefaultLevel}

VectorizeCall ==
    \E s \in SpecLevels : Vectorize(threshold, s, AppOptions) /\ UNCHANGED app

TracerStep ==
    /\ \/ ScanToNext
       \/ TraceStep
    /\ UNCHANGED <<imageData, threshold, simplification, imageTracer, phase,
                   externalContours, allContours, advancedOptions, tolLog, vectorData,
                   meshes, shapes, ret, app>>

EmptyData == [contours |-> <<>>, width |-> ImageSide, height |-> ImageSide]

CreateModelCall ==
    /\ phase = "idle"
    /\ \E input \in {NULL, EmptyData, vectorData} : CreateModel(input)
    /\ UNCHANGED <<vectorizerVars, app>>

CleanupCall == phase = "idle" /\ Cleanup /\ UNCHANGED <<vectorizerVars, app>>

ExportSTLCall == phase = "idle" /\ ExportSTL /\ UNCHANGED <<vectorizerVars, app>>

ExportDXFCall == phase = "idle" /\ ExportDXF /\ UNCHANGED <<vectorizerVars, app>>

\* Vectorizer.applyThreshold called on its own (lines 76-100)
ApplyThreshold(t) ==
    /\ phase = "idle"
    /\ threshold' = t
    /\ ret' = [op |-> "applyThreshold", input |-> t,
               value |-> IF imageData = NULL THEN NoImageLoaded
                         ELSE [buffer |-> applyThreshold(imageData, t)]]
    /\ UNCHANGED <<imageData, simplification, imageTracer, phase, tracerVars,
                   externalContours, allContours, advancedOptions, tolLog, vectorData,
                   meshes, shapes, app>>

\* Vectorizer.preprocessImage called on its own (lines 107-150)
PreprocessImage(buffer) ==
    /\ phase = "idle"
    /\ ret' = [op |-> "preprocessImage", input |-> buffer,
               value |-> [buffer |-> preprocessImage(buffer)]]
    /\ UNCHANGED <<vectorizerVars, meshes, shapes, app>>

Next ==
    \/ VectorizeCall
    \/ TracerStep
    \/ FallbackExternalDone
    \/ FallbackInternalDone
    \/ CreateModelCall
    \/ CleanupCall
    \/ ExportSTLCall
    \/ ExportDXFCall

Spec == Init /\ [][Next]_vars

(***************************************************************************)
(* Properties of the default specification                                  *)
(***************************************************************************)
TotalTriangles == SumSeq([k \in 1..Len(meshes) |-> meshes[k].triangles])

ExportedModel == ret.op = "exportSTL" /\ Len(meshes) >= 1 /\ TotalTriangles >= 1

\* C1: whenever exportSTL has produced a payload for a model of N >= 1 triangles,
\* the payload is the binary mesh and its size is exactly 84 + 50 * N bytes.
C1_ExportSTLPayloadIsBinary ==
    ExportedModel =>
        /\ ret.value.content.kind = "ArrayBuffer"
        /\ ret.value.size = 84 + 50 * TotalTriangles

\* C1, what the code does: the payload of a model with triangles is the 4
\* characters of the text "null"
C1_PlaceholderPayload ==
    /\ ExportedModel
    /\ ret.value.content = [kind |-> "text", text |-> "null"]
    /\ ret.value.size = 4
    /\ ret.value.size # 84 + 50 * TotalTriangles

\* the outer contours (positions in the analyzed list) that contain the first
\* point of the hole contour at position h
ContainingOuters(h) ==
    {e \in 1..Len(shapes.analyzed) :
        /\ ~shapes.analyzed[e].isHole
        /\ isPointInContour(shapes.analyzed[h].points[1], shapes.analyzed[e].points)}

HolePositions == {h \in 1..Len(shapes.analyzed) : shapes.analyzed[h].isHole}

ShapesHolding(h) == {k \in 1..Len(shapes.list) : h \in Range(shapes.list[k].holeIds)}

\* C3: in the shapes createModel has built, a hole contour is in the holes list of
\* the first outer contour (in descending |area| order) that contains its first
\* point, and in the holes list of no other shape.
C3_HoleHasOnlyFirstParent ==
    \A h \in HolePositions :
        /\ ContainingOuters(h) # {} =>
              \E k \in ShapesHolding(h) : shapes.list[k].ext = MinOf(ContainingOuters(h))
        /\ Cardinality(ShapesHolding(h)) <= 1

\* C3, what the code does: a hole inside two nested outer contours is in the
\* holes list of both shapes
C3_HoleInTwoShapes ==
    \E h \in HolePositions :
        /\ Cardinality(ContainingOuters(h)) = 2
        /\ {shapes.list[k].ext : k \in ShapesHolding(h)} = ContainingOuters(h)

\* the records vectorizeImageData resolved vectorData from
ResolvedFromRecords == phase = "idle" /\ allContours # <<>>

OrphanRecords ==
    {i \in 1..Len(allContours) : allContours[i].isHole /\ ParentOf(allContours, i) = 0}

OrphanPositions == {h \in HolePositions : ContainingOuters(h) = {}}

\* C5: a hole-classified contour whose first point is inside no outer contour is
\* kept, reversed, as a contour of its own in what vectorizeImageData resolves
\* with, and as the outer polygon of a shape of its own in createModel.
C5_OrphanHolesAreKept ==
    /\ ResolvedFromRecords =>
          \A i \in OrphanRecords :
              Reverse(allContours[i].points) \in Range(vectorData.contours)
    /\ \A h \in OrphanPositions :
          \E k \in 1..Len(shapes.list) :
              shapes.list[k].external = Reverse(shapes.analyzed[h].points)

\* C5, what the code does: createModel has dropped an orphan hole that was its
\* only contour
C5_OrphanHoleDropped ==
    /\ ret.op = "createModel"
    /\ ret.input # NULL
    /\ Len(shapes.analyzed) = 1
    /\ OrphanPositions = {1}
    /\ shapes.list = <<>>
    /\ meshes = <<>>
    /\ ret.value = NULL

\* C6: every classified record has isHole exactly when the shoelace sum of its
\* points is negative, in createModel and in vectorizeImageData.
C6_IsHoleIffNegativeArea ==
    /\ \A i \in 1..Len(shapes.analyzed) :
          shapes.analyzed[i].isHole <=> (ShoelaceSum(shapes.analyzed[i].points) < 0)
    /\ \A i \in 1..Len(allContours) :
          allContours[i].isHole <=> (ShoelaceSum(allContours[i].points) < 0)

\* C6, what the code does: a record of createModel has isHole exactly when the
\* shoelace sum of its points is negative; a record of vectorizeImageData has
\* isHole exactly when the fill of its path is white, whatever the sign of its area
C6_IsHoleByAreaOrByFill ==
    /\ \A i \in 1..Len(shapes.analyzed) :
          shapes.analyzed[i].isHole <=> (ShoelaceSum(shapes.analyzed[i].points) < 0)
    /\ \A i \in 1..Len(allContours) :
          allContours[i].isHole <=> allContours[i].isWhite

\* C6, a state that shows it: a record of vectorizeImageData that is no hole with
\* a negative area, and one that is a hole with a positive area
C6_FillAndAreaDisagree ==
    /\ \E i \in 1..Len(allContours) :
          /\ ~allContours[i].isHole
          /\ ShoelaceSum(allContours[i].points) < 0
    /\ \E i \in 1..Len(allContours) :
          /\ allContours[i].isHole
          /\ ShoelaceSum(allContours[i].points) > 0
    /\ \E i \in 1..Len(shapes.analyzed) : shapes.analyzed[i].isHole
    /\ \E i \in 1..Len(shapes.analyzed) : ~shapes.analyzed[i].isHole

\* the contours of the meshes createModel builds from its input
ContoursOf(input) == IF NoContours(input) THEN {} ELSE Range(input.contours)

\* C10: after createModel has returned, every mesh of the Extruder is built from
\* contours of that call's input; after a call with null or with an empty
\* contour list there is no mesh.
C10_OnlyThisCallsMeshes ==
    ret.op = "createModel" =>
        \A k \in 1..Len(meshes) : Range(meshes[k].contours) \subseteq ContoursOf(ret.input)

\* C10, what the code does: createModel(null) has returned and the meshes of an
\* earlier call are still there
C10_EarlierMeshesRemain ==
    /\ ret = [op |-> "createModel", input |-> NULL, value |-> NULL]
    /\ Len(meshes) >= 1

\* createModel has returned from a call on a contour list (empty or not)
ReturnedFromList == ret.op = "createModel" /\ ret.input # NULL

\* the call had contours, and none of its shapes passed the size filter
BuiltNoMesh ==
    /\ Len(ret.input.contours) > 0
    /\ \A k \in 1..Len(shapes.list) : ~IsValidShape(shapes.list[k])

\* C11: when createModel has returned from a call with an empty contour list, or
\* with contours from which no mesh results, it has returned null (no model) and
\* the mesh list is empty.
C11_NoMeshMeansFailure ==
    (ReturnedFromList /\ (Len(ret.input.contours) = 0 \/ BuiltNoMesh)) =>
        /\ ret.value = NULL
        /\ meshes = <<>>

\* C11, what the code does: createModel has returned null from a call with an
\* empty contour list, and the mesh list still holds the meshes of an earlier call
C11_EmptyListKeepsMeshes ==
    /\ ReturnedFromList
    /\ ret.input.contours = <<>>
    /\ ret.value = NULL
    /\ Len(meshes) >= 1

\* a step of exportSTL or exportDXF
ExportStep ==
    /\ phase = "idle"
    /\ phase' = "idle"
    /\ ret'.op \in {"exportSTL", "exportDXF"}

\* the Extruder holds no mesh, or (for exportDXF) its meshes hold no contour
HoldsNothingFor(op) ==
    \/ Len(meshes) = 0
    \/ op = "exportDXF" /\ Flatten([k \in 1..Len(meshes) |-> meshes[k].contours]) = <<>>

\* C12: exportSTL and exportDXF, called while the Extruder holds no mesh (for
\* exportDXF: no contour), end with an error and no payload, and leave every
\* field of the Extruder and of the Vectorizer as it was.
C12_ExportWithNoModelFails ==
    [][(ExportStep /\ HoldsNothingFor(ret'.op)) =>
          /\ Has(ret'.value, "error")
          /\ ~Has(ret'.value, "content")
          /\ UNCHANGED <<meshes, shapes, vectorizerVars>>]_vars

\* C12, a state that shows it: exportSTL has been refused on an empty mesh list
C12_ExportSTLRefused ==
    /\ ret.op = "exportSTL"
    /\ Has(ret.value, "error")
    /\ meshes = <<>>

(***************************************************************************)
(* findContoursImproved on its own: one call on each buffer of a small      *)
(* grid.  The border cells are background, as in every buffer smoothImage   *)
(* returns.  The call runs to its end without interruption, hence the       *)
(* fairness.  maxPoints is the point cap of the do-while loop: the code's   *)
(* 10000, or ScaledCap, a cap the walks of a small grid can reach.          *)
(***************************************************************************)
TracerBuffers == SUBSET ((1..(TracerWidth - 2)) \X (1..(TracerHeight - 2)))

InitTracer ==
    /\ InitObjects
    /\ imageData = NULL
    /\ imageTracer = NoImageTracer
    /\ phase = "tracer"
    /\ binaryImage \in TracerBuffers
    /\ width = TracerWidth
    /\ height = TracerHeight
    /\ isInverted \in BOOLEAN
    /\ maxPoints \in {TraceCap, ScaledCap}
    /\ visited = {}
    /\ scan = 0
    /\ tpc = "scan"
    /\ contour = <<>>
    /\ contours = <<>>

NextTracer == TracerStep

SpecTracerFair == InitTracer /\ [][NextTracer]_vars /\ WF_vars(NextTracer)

\* boundary pixels: ink pixels with at least one background 4-neighbour
BoundaryPixels ==
    {c \in binaryImage : \E d \in {<<0, -1>>, <<0, 1>>, <<-1, 0>>, <<1, 0>>} :
                            <<c[1] + d[1], c[2] + d[2]>> \notin binaryImage}

Touching(a, b) == Abs(a[1] - b[1]) <= 1 /\ Abs(a[2] - b[2]) <= 1

RECURSIVE Grow(_, _)
\* the pixels of B that are 8-connected to a pixel of the set reached
Grow(reached, B) ==
    The({IF more = {} THEN reached ELSE Grow(reached \cup more, B) :
         more \in {{c \in B \ reached : \E r \in reached : Touching(c, r)}}})

BoundaryComponents == {Grow({c}, BoundaryPixels) : c \in BoundaryPixels}

IsClosed(c) == c[1] = c[Len(c)]

TraceReturned == phase = "tracer" /\ tpc = "done" /\ maxPoints = TraceCap

\* C2: when findContoursImproved has returned, it has returned one polygon per
\* 8-connected component of boundary pixels, and every polygon is closed.
C2_OnePolygonPerComponent ==
    TraceReturned =>
        /\ Len(contours) = Cardinality(BoundaryComponents)
        /\ \A k \in 1..Len(contours) : IsClosed(contours[k])

\* C2, what the code does: one component of boundary pixels, walked as two polygons
C2_OneComponentTwoPolygons ==
    /\ TraceReturned
    /\ Cardinality(BoundaryComponents) = 1
    /\ Len(contours) = 2

\* the polygons returned or being walked have at most cap points
PointsAtMost(cap) ==
    /\ \A k \in 1..Len(contours) : Len(contours[k]) <= cap
    /\ Len(contour) <= cap

\* C9 with the cap as the bound: the call ends, and no polygon has more points
\* than the cap
C9_TerminatesWithinCap == <>(tpc = "done") /\ [](PointsAtMost(maxPoints))

\* C9: every call of findContoursImproved ends, and no polygon it returns has
\* more points than the cap plus one (the walk stops at cap points, and the
\* closing copy of the first point is pushed after that).
C9_TerminatesWithinCapPlusOne == <>(tpc = "done") /\ [](PointsAtMost(maxPoints + 1))

\* C9, a state that shows it: a returned polygon of cap + 1 points
C9_PolygonOfCapPlusOne ==
    /\ phase = "tracer"
    /\ tpc = "done"
    /\ \E k \in 1..Len(contours) : Len(contours[k]) = maxPoints + 1

(***************************************************************************)
(* The simplification slider: vectorize at every level 0..10, with the      *)
(* advanced options at their defaults, on each path to simplify: ImageTracer*)
(* paths, the fallback after ImageTracer gave nothing, the fallback without *)
(* ImageTracer.                                                             *)
(***************************************************************************)
Levels == 0..10

InitTolerance ==
    /\ InitObjects
    /\ InitNoTrace
    /\ phase = "idle"
    /\ imageData = BlockImage
    /\ imageTracer \in {NoImageTracer, ImageTracerWith(<<>>),
                        ImageTracerWith(<<Path(Rect(1, 1, 9, 9), FALSE)>>)}

VectorizeAtAnyLevel ==
    \E s \in Levels : Vectorize(threshold, s, AppOptions) /\ UNCHANGED app

NextTolerance ==
    \/ VectorizeAtAnyLevel
    \/ TracerStep
    \/ FallbackExternalDone
    \/ FallbackInternalDone

SpecTolerance == InitTolerance /\ [][NextTolerance]_vars

\* a call site's last simplify call was at a lower level than its next one
LevelRaised(before, after) ==
    /\ Has(before, "level")
    /\ Has(after, "level")
    /\ before.level < after.level

\* C8: when a call site of simplify is reached at a level b after it was reached
\* at a level a < b, the tolerance it passes at b is at least the one it passed
\* at a; on the ImageTracer path and on the fallback path.
C8_ToleranceMonotone ==
    [][/\ LevelRaised(tolLog.imagetracer, tolLog'.imagetracer) =>
              tolLog.imagetracer.tol <= tolLog'.imagetracer.tol
       /\ LevelRaised(tolLog.fallback, tolLog'.fallback) =>
              tolLog.fallback.tol <= tolLog'.fallback.tol]_vars

\* C8, what the code does: level 10 simplifies with 1/20 on the ImageTracer path
\* (level 2 with 9/20), and with 6/20 on the fallback that follows it (level 0
\* with 22/20)
C8_TopLevelSmallTolerance ==
    \/ tolLog.imagetracer = [level |-> 10, tol |-> 1]
    \/ /\ imageTracer = ImageTracerWith(<<>>)
       /\ tolLog.fallback = [level |-> 10, tol |-> 6]

(***************************************************************************)
(* Frame rejection: an image of FrameImageSide pixels a side, for which     *)
(* ImageTracer yields a small square and one polygon of the catalog below:  *)
(* triangles, open and closed rectangles whose bounding boxes start at 0, 4 *)
(* or 5 and end 5, 4, 2 or 0 pixels from the far edge.                      *)
(***************************************************************************)
NearEdges == {0, 4, 5}

FarEdges == {FrameImageSide - 5, FrameImageSide - 4, FrameImageSide - 2, FrameImageSide}

OpenRect(x0, y0, x1, y1) == <<Pt(x0, y0), Pt(x1, y0), Pt(x1, y1), Pt(x0, y1)>>

FrameCatalog ==
    UNION {{Triangle(x0, y0, x1, y1), OpenRect(x0, y0, x1, y1), Rect(x0, y0, x1, y1)} :
           x0 \in NearEdges, y0 \in NearEdges, x1 \in FarEdges, y1 \in FarEdges}

SmallSquare == Path(Rect(20, 20, 30, 30), FALSE)

InitFrame ==
    /\ InitObjects
    /\ InitNoTrace
    /\ phase = "idle"
    /\ imageData = Image(FrameImageSide, FrameImageSide, {})
    /\ imageTracer \in {ImageTracerWith(<<SmallSquare, Path(c, FALSE)>>) : c \in FrameCatalog}

NextFrame ==
    \/ VectorizeCall
    \/ CreateModelCall
    \/ CleanupCall
    \/ ExportSTLCall
    \/ ExportDXFCall

SpecFrame == InitFrame /\ [][NextFrame]_vars

\* the bounding box of a polygon, and the image it is compared with
BoxOf(c) ==
    [minX |-> MinOf({c[i].x : i \in 1..Len(c)}), maxX |-> MaxOf({c[i].x : i \in 1..Len(c)}),
     minY |-> MinOf({c[i].y : i \in 1..Len(c)}), maxY |-> MaxOf({c[i].y : i \in 1..Len(c)})]

BoxArea(b) == (b.maxX - b.minX) * (b.maxY - b.minY)

\* the bounding box covers at least 90% of the image and its four edges are
\* within 5 pixels of the image boundary
CoversImage(b) ==
    /\ 10 * BoxArea(b) >= 9 * imageData.width * imageData.height
    /\ b.minX <= 5
    /\ b.minY <= 5
    /\ b.maxX >= imageData.width - 5
    /\ b.maxY >= imageData.height - 5

IsFullExtent(b) ==
    b = [minX |-> 0, maxX |-> imageData.width, minY |-> 0, maxY |-> imageData.height]

\* what vectorizeImageData simplified the path's points to in its last run
SimplifiedPath(path) ==
    simplify(path.points,
             ImageTracerTolerance(ImageTracerOptions(AppOptions, simplification).ltres10,
                                  simplification))

\* the polygon reached the frame test and the filters that follow it let it through
ReachesFrameTest(c) == Len(c) > 2 /\ Len(c) >= Max(1, simplification)

HasRecord(c) == \E i \in 1..Len(allContours) : allContours[i].points = c

\* C7: of the polygons that reach the frame test, vectorizeImageData rejects
\* exactly those whose bounding box covers at least 90% of the image with all four
\* edges within 5 pixels of the image boundary, whatever their point count; and no
\* contour it resolves with has the full image extent as its bounding box.
C7_FrameRejectedExactly ==
    ResolvedFromRecords =>
        /\ \A k \in 1..Len(imageTracer.paths) :
              \A c \in {SimplifiedPath(imageTracer.paths[k])} :
                  ReachesFrameTest(c) => (~HasRecord(c) <=> CoversImage(BoxOf(c)))
        /\ \A k \in 1..Len(vectorData.contours) :
              ~IsFullExtent(BoxOf(vectorData.contours[k]))

\* C7, what the code does: a triangle whose bounding box is the full image extent
\* is among the contours vectorizeImageData resolved with
C7_FullExtentTriangleKept ==
    /\ ResolvedFromRecords
    /\ \E k \in 1..Len(vectorData.contours) :
          /\ Len(vectorData.contours[k]) = 3
          /\ IsFullExtent(BoxOf(vectorData.contours[k]))

(***************************************************************************)
(* The hand-rolled pipeline on a filled square with a square hole: no       *)
(* ImageTracer, so that vectorize runs fallbackVectorize; createModel then  *)
(* classifies what it resolved with.                                        *)
(***************************************************************************)
RingImage(hx, hy) ==
    Image(RingImageSide, RingImageSide, Block(2, 2, 10, 10) \ Block(hx, hy, hx + 2, hy + 2))

RingImages == {RingImage(hx, hy) : hx \in {4, 6}, hy \in {4, 6}}

InitFallback ==
    /\ InitObjects
    /\ InitNoTrace
    /\ phase = "idle"
    /\ imageData \in RingImages
    /\ imageTracer = NoImageTracer

SpecFallback == InitFallback /\ [][Next]_vars

\* createModel has classified the contours fallbackVectorize resolved with
ClassifiedFallback ==
    /\ phase = "idle"
    /\ vectorData # NULL
    /\ ret.op = "createModel"
    /\ ret.input = vectorData
    /\ Len(vectorData.contours) > 0

\* C4: for a filled square with a smaller square hole inside it, fallbackVectorize
\* followed by the classification of createModel gives one shape, with one hole,
\* whose first point is ray-cast inside the outer polygon.
C4_OneShapeWithOneHole ==
    ClassifiedFallback =>
        /\ Len(shapes.list) = 1
        /\ Len(shapes.list[1].holes) = 1
        /\ isPointInContour(shapes.list[1].holes[1][1], shapes.list[1].external)

\* C4, what the code does: every contour is classified as an outer contour, so
\* there are several shapes and none has a hole
C4_SeveralShapesNoHole ==
    /\ ClassifiedFallback
    /\ Len(shapes.list) >= 2
    /\ \A k \in 1..Len(shapes.list) : shapes.list[k].holes = <<>>

(***************************************************************************)
(* applyThreshold and preprocessImage on their own.  No image is loaded, or *)
(* an image of two pixels whose colours include greys and colours whose     *)
(* luminance is a whole number (128 for <<128, 128, 128>>, 45 for           *)
(* <<0, 72, 24>>, 90 for <<1, 113, 205>>).  preprocessImage is given grey   *)
(* buffers of every size up to RasterSide, or the buffer applyThreshold has *)
(* just returned.                                                           *)
(***************************************************************************)
RasterSide == 5

Palette == {<<0, 0, 0>>, <<255, 255, 255>>, <<128, 128, 128>>, <<0, 72, 24>>,
            <<1, 113, 205>>, <<127, 128, 129>>}

Thresholds == {45, 90, 128, 255}

RasterImages ==
    {[width |-> 2, height |-> 1,
      data |-> [c \in Cells(2, 1) |-> IF c[1] = 0 THEN p ELSE <<255 - p[1], p[2], p[3]>>]] :
     p \in Palette}

Shades == <<0, 0, 128, 255, 255>>

GreyBuffer(w, h, a, b) ==
    [width |-> w, height |-> h,
     data |-> [c \in Cells(w, h) |->
                  The({<<v, v, v>> :
                       v \in {Shades[((a * c[1] * c[1] + b * c[2] + c[1] * c[2]) % 5) + 1]}})]]

GreyBuffers ==
    {GreyBuffer(w, h, a, b) : w \in 1..RasterSide, h \in 1..RasterSide, a \in 0..1, b \in 0..1}

InitRaster ==
    /\ InitObjects
    /\ InitNoTrace
    /\ phase = "idle"
    /\ imageData \in {NULL} \cup RasterImages
    /\ imageTracer = NoImageTracer

ApplyThresholdCall == \E t \in Thresholds : ApplyThreshold(t)

PreprocessImageCall ==
    \E buffer \in GreyBuffers \cup (IF ret.op = "applyThreshold" /\ Has(ret.value, "buffer")
                                    THEN {ret.value.buffer} ELSE {}) :
        PreprocessImage(buffer)

NextRaster ==
    \/ ApplyThresholdCall
    \/ PreprocessImageCall
    \/ VectorizeCall
    \/ TracerStep
    \/ FallbackExternalDone
    \/ FallbackInternalDone

SpecRaster == InitRaster /\ [][NextRaster]_vars

\* C13: applyThreshold and vectorize, called while no image is loaded, end with
\* the error "Aucune image chargee"; no buffer and no contour data come back.
C13_NoImageMeansError ==
    (imageData = NULL /\ ret.op \in {"applyThreshold", "vectorize"}) =>
        /\ Has(ret.value, "error")
        /\ ret.value.error = "Aucune image chargee"
        /\ ~Has(ret.value, "buffer")
        /\ ~Has(ret.value, "resolved")
        /\ vectorData = NULL

\* C13, a state that shows it: vectorize has been refused for want of an image
C13_VectorizeRefused ==
    /\ imageData = NULL
    /\ ret.op = "vectorize"
    /\ Has(ret.value, "error")

\* a step of applyThreshold or preprocessImage
RasterStep ==
    /\ phase = "idle"
    /\ phase' = "idle"
    /\ ret'.op \in {"applyThreshold", "preprocessImage"}

\* C14: a call of applyThreshold or preprocessImage, failing or not, leaves the
\* source pixel data and the fields of the Vectorizer (imageData with its width
\* and height, threshold, simplificationTolerance) as they were.
C14_RasterCallsChangeNoField ==
    [][RasterStep => UNCHANGED <<imageData, threshold, simplification>>]_vars

\* C14, what the code does: applyThreshold has failed for want of an image and
\* has stored its argument in this.threshold all the same
C14_ThresholdStoredOnFailure ==
    /\ imageData = NULL
    /\ ret.op = "applyThreshold"
    /\ Has(ret.value, "error")
    /\ threshold = ret.input
    /\ threshold # DefaultThreshold

\* applyThreshold has returned a buffer
ThresholdApplied == ret.op = "applyThreshold" /\ Has(ret.value, "buffer")

\* C15: the buffer applyThreshold returns has the dimensions of the source, and
\* each of its pixels is ink (0, 0, 0) exactly when 0.299 R + 0.587 G + 0.114 B of
\* the source pixel is below the threshold, and background (255, 255, 255) otherwise.
C15_InkIffLuminanceBelow ==
    ThresholdApplied =>
        /\ ret.value.buffer.width = imageData.width
        /\ ret.value.buffer.height = imageData.height
        /\ DOMAIN ret.value.buffer.data = DOMAIN imageData.data
        /\ \A c \in DOMAIN imageData.data :
              ret.value.buffer.data[c] =
                  IF 299 * imageData.data[c][1] + 587 * imageData.data[c][2]
                         + 114 * imageData.data[c][3] < 1000 * ret.input
                  THEN <<0, 0, 0>> ELSE <<255, 255, 255>>

\* C15, what the code does: at threshold 128 the grey <<128, 128, 128>>, whose
\* luminance is 128, comes out as ink
C15_GreyAtThresholdIsInk ==
    /\ ThresholdApplied
    /\ ret.input = 128
    /\ \E c \in DOMAIN imageData.data :
          /\ imageData.data[c] = <<128, 128, 128>>
          /\ ret.value.buffer.data[c] = <<0, 0, 0>>

\* v is a median of the 9 intensities around pixel c of the buffer
IsMedianAround(v, buffer, c) ==
    LET around == {<<x, y>> \in Cells(buffer.width, buffer.height) :
                      Abs(x - c[1]) <= 1 /\ Abs(y - c[2]) <= 1}
    IN  /\ Cardinality(around) = 9
        /\ \E n \in around : buffer.data[n][1] = v
        /\ Cardinality({n \in around : buffer.data[n][1] <= v}) >= 5
        /\ Cardinality({n \in around : buffer.data[n][1] >= v}) >= 5

\* C16: the buffer preprocessImage returns has the dimensions of its input, is
\* background (255 in the three channels) at every pixel with x < 2, y < 2,
\* x >= width - 2 or y >= height - 2, and holds at every other pixel, in the three
\* channels, the median of the 9 input intensities around it.
C16_BorderWhiteElseMedian ==
    ret.op = "preprocessImage" =>
        /\ ret.value.buffer.width = ret.input.width
        /\ ret.value.buffer.height = ret.input.height
        /\ DOMAIN ret.value.buffer.data = Cells(ret.input.width, ret.input.height)
        /\ \A c \in Cells(ret.input.width, ret.input.height) :
              IF \/ c[1] < 2
                 \/ c[2] < 2
                 \/ c[1] >= ret.input.width - 2
                 \/ c[2] >= ret.input.height - 2
              THEN ret.value.buffer.data[c] = <<255, 255, 255>>
              ELSE \E v \in 0..255 :
                      /\ ret.value.buffer.data[c] = <<v, v, v>>
                      /\ IsMedianAround(v, ret.input, c)

\* C16, a state that shows it: a buffer of 5 by 5 pixels whose centre pixel has
\* been replaced by a median that differs from it and from the background
C16_MedianReplacesPixel ==
    /\ ret.op = "preprocessImage"
    /\ ret.input.width = 5
    /\ ret.input.height = 5
    /\ ret.value.buffer.data[<<2, 2>>] # ret.input.data[<<2, 2>>]
    /\ ret.value.buffer.data[<<2, 2>>] # <<255, 255, 255>>

(***************************************************************************)
(* The padding of fallbackVectorize: no ImageTracer, images of ImageSide    *)
(* pixels a side (blank, all ink, a block, a bar), and advanced options     *)
(* that set the smoothing (blurdelta 0, 60, 90, or none: threshold 2) and   *)
(* the minimal area (turdsize 0 or 2).                                      *)
(***************************************************************************)
PaddingImages ==
    {BlockImage,
     Image(ImageSide, ImageSide, {}),
     Image(ImageSide, ImageSide, Block(0, 0, ImageSide - 1, ImageSide - 1)),
     Image(ImageSide, ImageSide, Block(2, 2, 4, ImageSide - 3))}

PaddingOptions ==
    {[turdsize |-> ts] : ts \in {0, 2}}
    \cup {[turdsize |-> ts, blurdelta |-> d] : ts \in {0, 2}, d \in {0, 60, 90}}

InitPadding ==
    /\ InitObjects
    /\ InitNoTrace
    /\ phase = "idle"
    /\ imageData \in PaddingImages
    /\ imageTracer = NoImageTracer

VectorizeWithOptions ==
    \E adv \in PaddingOptions : Vectorize(threshold, DefaultLevel, adv) /\ UNCHANGED app

NextPadding ==
    \/ VectorizeWithOptions
    \/ TracerStep
    \/ FallbackExternalDone
    \/ FallbackInternalDone

SpecPadding == InitPadding /\ [][NextPadding]_vars

\* fallbackVectorize has resolved
FallbackResolved == phase = "idle" /\ ret.op = "vectorize" /\ vectorData # NULL

InsideImage(p) ==
    /\ 0 <= p.x
    /\ p.x < imageData.width
    /\ 0 <= p.y
    /\ p.y < imageData.height

\* the cells of the padded buffer that hold the outermost rows and columns of the image
OutermostCells ==
    {c \in (2..(imageData.width + 1)) \X (2..(imageData.height + 1)) :
        \/ c[1] \in {2, imageData.width + 1}
        \/ c[2] \in {2, imageData.height + 1}}

HasBackgroundNeighbour(c) ==
    \E d \in {<<0, -1>>, <<0, 1>>, <<-1, 0>>, <<1, 0>>} :
        <<c[1] + d[1], c[2] + d[2]>> \notin binaryImage

\* C17: every point of every contour fallbackVectorize resolves with lies inside
\* the image (0 <= x < width, 0 <= y < height), whatever the image and the
\* smoothing; and in the padded buffers it traces, a boundary pixel on an
\* outermost row or column of the image is in the range the scan starts traces
\* from and passes the test a trace needs to step on it.
C17_ContoursInsideImage ==
    /\ FallbackResolved =>
          \A k \in 1..Len(vectorData.contours) :
              \A i \in 1..Len(vectorData.contours[k]) : InsideImage(vectorData.contours[k][i])
    /\ phase \in {"external", "internal"} =>
          \A c \in OutermostCells \cap binaryImage :
              HasBackgroundNeighbour(c) =>
                  /\ c \in (1..(width - 2)) \X (1..(height - 2))
                  /\ isPotentialBoundary(binaryImage, c[1], c[2], width, height)

\* C17, what the code does: a contour with a point outside the image
C17_PointOutsideImage ==
    /\ FallbackResolved
    /\ \E k \in 1..Len(vectorData.contours) :
          \E i \in 1..Len(vectorData.contours[k]) : ~InsideImage(vectorData.contours[k][i])

\* every polygon the tracer has returned, in the current call and the one before it
TracerReturned == Range(contours) \cup Range(externalContours)

\* C18: for every option setting, turdsize 0 included, no polygon of fewer than
\* three points is returned by the tracer and none is passed to simplify, and
\* a run that discards such walks ends without an error
C18_NoShortPolygon ==
    /\ \A c \in TracerReturned : Len(c) >= 3
    /\ \A n \in tolLog.passed : n >= 3
    /\ (FallbackResolved /\ imageData # NULL) => ~Has(ret.value, "error")

\* a resolved run of the internal tracer with turdsize 0 in which a walk was
\* dropped (a visited cell belongs to no returned polygon) and simplify ran
C18_ShortWalkDiscarded ==
    /\ FallbackResolved
    /\ Turdsize(advancedOptions) = 0
    /\ tolLog.passed # {}
    /\ \E c \in visited : \A k \in TracerReturned : Pt(c[1], c[2]) \notin Range(k)

(***************************************************************************)
(* createModel on shapes around the minimum size (extruder.js:165-170).    *)
(* ImageTracer yields one or two rectangles of 8, 10, 12 and 64 px2.       *)
(***************************************************************************)
TinyKinds ==
    {Path(Rect(1, 1, 5, 3), FALSE),
     Path(Rect(1, 1, 6, 3), FALSE),
     Path(Rect(1, 5, 7, 7), FALSE),
     Path(Rect(1, 1, 9, 9), FALSE)}

InitTiny ==
    /\ InitObjects
    /\ InitNoTrace
    /\ phase = "idle"
    /\ imageData = Image(ImageSide, ImageSide, {})
    /\ imageTracer \in {ImageTracerWith(paths) : paths \in [1..1 -> TinyKinds] \cup [1..2 -> TinyKinds]}

SpecTiny == InitTiny /\ [][NextFrame]_vars

\* createModel has returned from a contour list that is not empty
ModelCreated == ret.op = "createModel" /\ ~NoContours(ret.input)

\* the shape's outer polygon is the outer polygon of a mesh
IsBuilt(shape) == \E k \in 1..Len(meshes) : meshes[k].contours[1] = shape.external

\* C19: createModel leaves a shape out of the mesh exactly when the absolute
\* shoelace area of its outer polygon is below 10 px2; a shape whose area
\* equals or exceeds 10 px2 is built
C19_ExcludedIffBelowThreshold ==
    ModelCreated =>
        \A k \in 1..Len(shapes.list) :
            ~IsBuilt(shapes.list[k]) <=>
                Abs(ShoelaceSum(shapes.list[k].external)) < 2 * tinyShapeThreshold

\* createModel has left out a shape whose outer polygon has an area of exactly 10 px2
C19_AreaTenExcluded ==
    /\ ModelCreated
    /\ \E k \in 1..Len(shapes.list) :
           /\ Abs(ShoelaceSum(shapes.list[k].external)) = 2 * tinyShapeThreshold
           /\ ~IsBuilt(shapes.list[k])

(***************************************************************************)
(* Extruder.createDXF called on its own (extruder.js:400-433), on lists of *)
(* polygons of zero to five points, open and closed.                       *)
(***************************************************************************)
MaxPolygons == 2

DXFPolygons ==
    {<<>>,
     <<Pt(4, 4)>>,
     <<Pt(1, 2), Pt(5, 7)>>,
     <<Pt(1, 1), Pt(6, 1), Pt(6, 5)>>,
     <<Pt(2, 2), Pt(8, 2), Pt(8, 8), Pt(2, 8)>>,
     Rect(1, 1, 9, 9),
     Reverse(Rect(3, 3, 7, 7))}

DXFInputs ==
    {[contours |-> list, width |-> ImageSide, height |-> h] :
        list \in UNION {[1..n -> DXFPolygons] : n \in 0..MaxPolygons},
        h \in {ImageSide, FrameImageSide}}

InitDXF ==
    /\ InitNoTrace
    /\ phase = "idle"
    /\ imageData = NULL
    /\ imageTracer = NoImageTracer
    /\ threshold = DefaultThreshold
    /\ simplification = DefaultLevel
    /\ externalContours = <<>>
    /\ allContours = <<>>
    /\ advancedOptions = NULL
    /\ tolLog = EmptyLog
    /\ vectorData \in DXFInputs
    /\ meshes = <<>>
    /\ shapes = [analyzed |-> <<>>, list |-> <<>>]
    /\ ret = [op |-> "new", input |-> NULL, value |-> NULL]
    /\ app = AppStart

CreateDXFCall ==
    /\ phase = "idle"
    /\ ret' = [op |-> "createDXF", input |-> vectorData,
               value |-> createDXF(vectorData.contours, vectorData.height)]
    /\ UNCHANGED <<vectorizerVars, meshes, shapes, app>>

NextDXF == CreateDXFCall

SpecDXF == InitDXF /\ [][NextDXF]_vars

\* the number of consecutive point pairs of a polygon
PairCount(c) == IF Len(c) >= 2 THEN Len(c) - 1 ELSE 0

\* the number of point pairs of the polygons before the k-th
PairsBefore(list, k) == SumSeq([j \in 1..(k - 1) |-> PairCount(list[j])])

\* the n-th record of 16 lines after the 4 lines of the section header
LineRecord(content, n) == SubSeq(content, 16 * n - 11, 16 * n + 4)

\* C20: createDXF emits exactly one LINE per consecutive point pair of each
\* polygon of at least two points, in polygon order and point order; a polygon
\* of fewer than two points adds nothing and no closing segment is added
C20_OneLinePerPointPair ==
    ret.op = "createDXF" =>
        LET list == ret.input.contours
            h    == ret.input.height
        IN  /\ Len(ret.value) = 8 + 16 * PairsBefore(list, Len(list) + 1)
            /\ \A k \in 1..Len(list) : \A i \in 1..PairCount(list[k]) :
                   \E rec \in {LineRecord(ret.value, PairsBefore(list, k) + i)} :
                       /\ rec[2] = "LINE"
                       /\ rec[6] = list[k][i].x /\ rec[8] = h - list[k][i].y
                       /\ rec[12] = list[k][i + 1].x /\ rec[14] = h - list[k][i + 1].y

\* a one-point polygon followed by an open four-point polygon gives three LINE records
C20_OpenSquareGivesThreeLines ==
    /\ ret.op = "createDXF"
    /\ Len(ret.input.contours) = 2
    /\ Len(ret.input.contours[1]) = 1
    /\ Len(ret.input.contours[2]) = 4
    /\ ret.input.contours[2][1] # ret.input.contours[2][4]
    /\ Len(ret.value) = 8 + 16 * 3

\* the number of LINE records between the header and the trailer
RecordCount(content) == (Len(content) - 8) \div 16

\* C21: every LINE record of createDXF carries the x of its two source points
\* unchanged, imageHeight - y for each y and 0 for both z; the output starts
\* with the SECTION/ENTITIES header and ends with ENDSEC and EOF, also when
\* it holds no record
C21_FlippedRecordsBetweenHeaderAndTrailer ==
    ret.op = "createDXF" =>
        LET list == ret.input.contours
            h    == ret.input.height
            out  == ret.value
        IN  /\ Len(out) >= 8
            /\ SubSeq(out, 1, 4) = <<"0", "SECTION", "2", "ENTITIES">>
            /\ SubSeq(out, Len(out) - 3, Len(out)) = <<"0", "ENDSEC", "0", "EOF">>
            /\ \A n \in 1..RecordCount(out) :
                   \E rec \in {LineRecord(out, n)} :
                   \E k \in 1..Len(list) : \E i \in 1..PairCount(list[k]) :
                       /\ rec[6] = list[k][i].x
                       /\ rec[8] = h - list[k][i].y
                       /\ rec[10] = "0"
                       /\ rec[12] = list[k][i + 1].x
                       /\ rec[14] = h - list[k][i + 1].y
                       /\ rec[16] = "0"

\* the segment (1,2)-(5,7) of an image of height ImageSide is written as
\* (1, ImageSide - 2)-(5, ImageSide - 7)
C21_SegmentFlipped ==
    /\ ret.op = "createDXF"
    /\ ret.input.height = ImageSide
    /\ ret.input.contours = <<(<<Pt(1, 2), Pt(5, 7)>>)>>
    /\ LineRecord(ret.value, 1)[8] = ImageSide - 2
    /\ LineRecord(ret.value, 1)[14] = ImageSide - 7

(***************************************************************************)
(* toBinarySTL called on its own (extruder.js:505-541), on lists of        *)
(* triangles with whole-number coordinates.                                *)
(***************************************************************************)
MaxTriangles == 2

Vec(vx, vy, vz) == [x |-> vx, y |-> vy, z |-> vz]

STLTriangles ==
    {[vertices |-> <<Vec(0, 0, 0), Vec(a, 0, 0), Vec(0, b, c)>>, normal |-> n] :
        a \in {1, 50}, b \in {-3, 100}, c \in {0, 5}, n \in {Vec(0, 0, 1), Vec(-1, 0, 0)}}

TriangleLists == UNION {[1..n -> STLTriangles] : n \in 0..MaxTriangles}

\* a mesh whose geometry is given triangle by triangle
MeshWith(geometry) ==
    [contours |-> <<>>, imageHeight |-> ImageSide, triangles |-> Len(geometry),
     geometry |-> geometry]

InitSTL ==
    /\ InitNoTrace
    /\ phase = "idle"
    /\ imageData = NULL
    /\ imageTracer = NoImageTracer
    /\ threshold = DefaultThreshold
    /\ simplification = DefaultLevel
    /\ externalContours = <<>>
    /\ allContours = <<>>
    /\ advancedOptions = NULL
    /\ tolLog = EmptyLog
    /\ vectorData = NULL
    /\ meshes \in {<<MeshWith(g)>> : g \in TriangleLists}
    /\ shapes = [analyzed |-> <<>>, list |-> <<>>]
    /\ ret = [op |-> "new", input |-> NULL, value |-> NULL]
    /\ app = AppStart

\* lines 544-590: the triangles of every mesh, in mesh order
CollectTriangles(meshList) == Flatten([k \in 1..Len(meshList) |-> meshList[k].geometry])

ToBinarySTLCall ==
    /\ phase = "idle"
    /\ \E triangles \in {CollectTriangles(meshes)} :
           ret' = [op |-> "toBinarySTL", input |-> triangles, value |-> toBinarySTLBytes(triangles)]
    /\ UNCHANGED <<vectorizerVars, meshes, shapes, app>>

NextSTL == ToBinarySTLCall

SpecSTL == InitSTL /\ [][NextSTL]_vars

\* the bytes of a view from offset first to offset last
Slice(view, first, last) == [i \in 1..(last - first + 1) |-> view[first + i - 1]]

\* C22: toBinarySTL writes 80 zero bytes, the triangle count N as a
\* little-endian uint32 at offset 80, and triangle k (from 0) in bytes 84+50k
\* to 84+50k+49 as 12 bytes of normal, 36 bytes of vertices and a zero uint16;
\* the offset after the last triangle is the buffer length 84 + 50 * N
C22_BinaryLayout ==
    ret.op = "toBinarySTL" =>
        LET N   == Len(ret.input)
            out == ret.value.bytes
        IN  /\ DOMAIN out = 0..(83 + 50 * N)
            /\ \A i \in 0..79 : out[i] = 0
            /\ Slice(out, 80, 83) = <<N % 256, (N \div 256) % 256, (N \div 65536) % 256, N \div 2^24>>
            /\ \A k \in 0..(N - 1) :
                   LET t    == ret.input[k + 1]
                       base == 84 + 50 * k
                   IN  /\ Slice(out, base, base + 11) = Vector3Bytes(t.normal)
                       /\ \A j \in 0..2 :
                              Slice(out, base + 12 + 12 * j, base + 23 + 12 * j)
                                  = Vector3Bytes(t.vertices[j + 1])
                       /\ out[base + 48] = 0 /\ out[base + 49] = 0
            /\ ret.value.offset = 84 + 50 * N
            /\ ret.value.byteLength = 84 + 50 * N

\* a buffer of two triangles: 184 bytes, count bytes 2,0,0,0, and the x of the
\* second vertex of the second triangle, 50 = 0x42480000, at offset 158
C22_TwoTrianglesWritten ==
    /\ ret.op = "toBinarySTL"
    /\ Len(ret.input) = 2
    /\ ret.input[2].vertices[2].x = 50
    /\ ret.value.offset = 184
    /\ Slice(ret.value.bytes, 80, 83) = <<2, 0, 0, 0>>
    /\ Slice(ret.value.bytes, 158, 161) = <<0, 0, 72, 66>>

(***************************************************************************)
(* calculateArea and calculateContourArea called on their own, on point    *)
(* sequences with whole and decimal coordinates.                           *)
(***************************************************************************)
MaxPoints == 3

\* the doubles nearest to 0, 0.8, 1.5, 2, 3.2, 5, 6.3, 7.2 and 9.7
Decimal0 == <<0, 0, 0, 0, 0, 0, 0, 0, 0, 0, 0, 0, 0, 0>>

Decimal08 == <<208, 819, 204, 819, 204, 51, 0, 0, 0, 0, 0, 0, 0, 0>>

Decimal15 == <<0, 0, 0, 0, 0, 96, 0, 0, 0, 0, 0, 0, 0, 0>>

Decimal2 == <<0, 0, 0, 0, 0, 128, 0, 0, 0, 0, 0, 0, 0, 0>>

Decimal32 == <<832, 204, 819, 204, 819, 204, 0, 0, 0, 0, 0, 0, 0, 0>>

Decimal5 == <<0, 0, 0, 0, 0, 320, 0, 0, 0, 0, 0, 0, 0, 0>>

Decimal63 == <<192, 819, 204, 819, 204, 403, 0, 0, 0, 0, 0, 0, 0, 0>>

Decimal72 == <<832, 204, 819, 204, 819, 460, 0, 0, 0, 0, 0, 0, 0, 0>>

Decimal97 == <<768, 204, 819, 204, 819, 620, 0, 0, 0, 0, 0, 0, 0, 0>>

DecimalPoints ==
    {Pt(Decimal72, Decimal97), Pt(Decimal08, Decimal32), Pt(Decimal15, Decimal63),
     Pt(Decimal2, Decimal5), Pt(Decimal5, Decimal2), Pt(Decimal0, Decimal0)}

PointSequences == UNION {[1..n -> DecimalPoints] : n \in 0..MaxPoints}

InitArea ==
    /\ InitNoTrace
    /\ phase = "idle"
    /\ imageData = NULL
    /\ imageTracer = NoImageTracer
    /\ threshold = DefaultThreshold
    /\ simplification = DefaultLevel
    /\ externalContours = <<>>
    /\ allContours = <<>>
    /\ advancedOptions = NULL
    /\ tolLog = EmptyLog
    /\ vectorData \in {[contours |-> <<p>>, width |-> ImageSide, height |-> ImageSide] :
                         p \in PointSequences}
    /\ meshes = <<>>
    /\ shapes = [analyzed |-> <<>>, list |-> <<>>]
    /\ ret = [op |-> "new", input |-> NULL, value |-> NULL]
    /\ app = AppStart

CalculateAreaCall ==
    /\ phase = "idle"
    /\ ret' = [op |-> "calculateArea", input |-> vectorData.contours[1],
               value |-> calculateArea(vectorData.contours[1])]
    /\ UNCHANGED <<vectorizerVars, meshes, shapes, app>>

CalculateContourAreaCall ==
    /\ phase = "idle"
    /\ ret' = [op |-> "calculateContourArea", input |-> vectorData.contours[1],
               value |-> calculateContourArea(vectorData.contours[1])]
    /\ UNCHANGED <<vectorizerVars, meshes, shapes, app>>

NextArea ==
    \/ CalculateAreaCall
    \/ CalculateContourAreaCall

SpecArea == InitArea /\ [][NextArea]_vars

\* C23: for every point sequence p, calculateArea(reverse(p)) = -calculateArea(p),
\* and calculateContourArea returns the common magnitude for p and for reverse(p)
C23_ReverseNegatesArea ==
    /\ ret.op = "calculateArea" =>
           calculateArea(Reverse(ret.input)) = Float64Negate(ret.value)
    /\ ret.op = "calculateContourArea" =>
           /\ calculateContourArea(Reverse(ret.input)) = ret.value
           /\ ret.value.mag = calculateArea(ret.input).mag

\* the triangle (7.2, 9.7), (0.8, 3.2), (1.5, 6.3): its area and the area of
\* its reverse differ in magnitude
C23_ReverseChangesMagnitude ==
    /\ ret.op = "calculateArea"
    /\ ret.input = <<Pt(Decimal72, Decimal97), Pt(Decimal08, Decimal32), Pt(Decimal15, Decimal63)>>
    /\ ret.value.neg
    /\ calculateArea(Reverse(ret.input)).mag # ret.value.mag

(***************************************************************************)
(* The page (app.js).  Every action below is one task of the browser's     *)
(* event loop: an event handler or a timer or promise callback together    *)
(* with the promise reactions it triggers at once.  A disabled button      *)
(* gets no click; the buttons of the webcam container get none while it    *)
(* is hidden.  ImageTracer is loaded (index.html) and yields a path for    *)
(* each image of the catalogue, so vectorize settles within its task.      *)
(***************************************************************************)
MaxLoads == 2

MaxChains == 2

MaxStreams == 2

\* the files and camera frames the user can choose from, with what
\* ImageTracer yields for each: one builds a mesh, the other is too small
AppImages ==
    <<[image |-> Image(ImageSide, ImageSide, Block(1, 1, 8, 8)),
       paths |-> <<Path(Rect(1, 1, 9, 9), FALSE)>>],
      [image |-> Image(ImageSide, ImageSide, Block(1, 1, 4, 2)),
       paths |-> <<Path(Rect(1, 1, 5, 3), FALSE)>>]>>

\* createTestContours (app.js:188-217): a circle of 36 points around (50, 50)
\* with radius 100/3, closed; coordinates rounded to whole pixels
createTestContours ==
    [contours |-> <<(<<Pt(83, 50), Pt(83, 56), Pt(81, 61), Pt(79, 67), Pt(76, 71), Pt(71, 76),
      Pt(67, 79), Pt(61, 81), Pt(56, 83), Pt(50, 83), Pt(44, 83), Pt(39, 81),
      Pt(33, 79), Pt(29, 76), Pt(24, 71), Pt(21, 67), Pt(19, 61), Pt(17, 56),
      Pt(17, 50), Pt(17, 44), Pt(19, 39), Pt(21, 33), Pt(24, 29), Pt(29, 24),
      Pt(33, 21), Pt(39, 19), Pt(44, 17), Pt(50, 17), Pt(56, 17), Pt(61, 19),
      Pt(67, 21), Pt(71, 24), Pt(76, 29), Pt(79, 33), Pt(81, 39), Pt(83, 44),
      Pt(83, 50)>>)>>,
     width |-> 100, height |-> 100]

RemoveAt(seq, k) == [i \in 1..(Len(seq) - 1) |-> IF i < k THEN seq[i] ELSE seq[i + 1]]

\* stopWebcam (app.js:79-86) applied to the page a
stopWebcam(a) ==
    [a EXCEPT !.live = IF a.webcamStream # 0 THEN @ \ {a.webcamStream} ELSE @,
              !.webcamStream = 0,
              !.webcamContainer = "none"]

\* no task runs inside another
Idle == phase = "idle"

InitApp ==
    /\ InitObjects
    /\ InitNoTrace
    /\ phase = "idle"
    /\ imageData = NULL
    /\ imageTracer = ImageTracerWith(<<>>)

\* imageInput change (app.js:162-185)
SelectImage ==
    /\ Idle
    /\ Len(app.loads) < MaxLoads
    /\ \E i \in 1..Len(AppImages) :
           app' = [app EXCEPT !.exportStlDisabled = TRUE,
                              !.exportDxfDisabled = TRUE,
                              !.processDisabled = TRUE,
                              !.loads = Append(@, [image |-> i, source |-> "file"])]
    /\ UNCHANGED <<vectorizerVars, meshes, shapes, ret>>

\* loadImage resolves (vectorizer.js:18-47, processImage 53-69) and the
\* then-callback of its caller runs (app.js:174-178 or 109-116)
LoadResolved ==
    /\ Idle
    /\ \E k \in 1..Len(app.loads) :
           /\ imageData' = AppImages[app.loads[k].image].image
           /\ imageTracer' = ImageTracerWith(AppImages[app.loads[k].image].paths)
           /\ \E enabled \in {[app EXCEPT !.processDisabled = FALSE,
                                           !.loads = RemoveAt(@, k)]} :
                  app' = IF app.loads[k].source = "webcam" THEN stopWebcam(enabled) ELSE enabled
    /\ UNCHANGED <<threshold, simplification, phase, tracerVars, externalContours,
                   allContours, advancedOptions, tolLog, vectorData, meshes, shapes, ret>>

\* loadImage rejects: the catch-callbacks only report (app.js:179-183, 117-120)
LoadRejected ==
    /\ Idle
    /\ \E k \in 1..Len(app.loads) : app' = [app EXCEPT !.loads = RemoveAt(@, k)]
    /\ UNCHANGED <<vectorizerVars, meshes, shapes, ret>>

\* webcamBtn click: startWebcam (app.js:45-76) up to the getUserMedia call
WebcamClick ==
    /\ Idle
    /\ app.acquired + app.pendingMedia < MaxStreams
    /\ app' = [app EXCEPT !.webcamContainer = "block", !.pendingMedia = @ + 1]
    /\ UNCHANGED <<vectorizerVars, meshes, shapes, ret>>

\* getUserMedia resolves with a new stream (app.js:66-70)
MediaGranted ==
    /\ Idle
    /\ app.pendingMedia > 0
    /\ app' = [app EXCEPT !.pendingMedia = @ - 1,
                          !.acquired = @ + 1,
                          !.live = @ \cup {app.acquired + 1},
                          !.webcamStream = app.acquired + 1]
    /\ UNCHANGED <<vectorizerVars, meshes, shapes, ret>>

\* getUserMedia rejects (app.js:71-75)
MediaDenied ==
    /\ Idle
    /\ app.pendingMedia > 0
    /\ app' = stopWebcam([app EXCEPT !.pendingMedia = @ - 1])
    /\ UNCHANGED <<vectorizerVars, meshes, shapes, ret>>

\* cancelWebcamBtn click (app.js:150)
CancelClick ==
    /\ Idle
    /\ app.webcamContainer = "block"
    /\ app' = stopWebcam(app)
    /\ UNCHANGED <<vectorizerVars, meshes, shapes, ret>>

\* captureBtn click: captureImage (app.js:89-122) up to the loadImage call of
\* the toBlob callback; without a stream it returns at once
CaptureClick ==
    /\ Idle
    /\ app.webcamContainer = "block"
    /\ app.webcamStream # 0
    /\ Len(app.loads) < MaxLoads
    /\ \E i \in 1..Len(AppImages) :
           app' = [app EXCEPT !.loads = Append(@, [image |-> i, source |-> "webcam"])]
    /\ UNCHANGED <<vectorizerVars, meshes, shapes, ret>>

\* processBtn click (app.js:220-241): the synchronous part of the handler
ProcessClick ==
    /\ Idle
    /\ ~app.processDisabled
    /\ imageData # NULL
    /\ Len(app.chains) < MaxChains
    /\ Cleanup
    /\ app' = [app EXCEPT !.processDisabled = TRUE,
                          !.canvasAttached = FALSE,
                          !.chains = Append(@, "delay")]
    /\ UNCHANGED vectorizerVars

\* the first timer of a chain fires (app.js:244-258): vectorize, the
\* substitution of the test contours, vectorData = data, the second timer
DelayElapsed ==
    /\ Idle
    /\ \E k \in 1..Len(app.chains) :
           /\ app.chains[k] = "delay"
           /\ Vectorize(DefaultThreshold, DefaultLevel, AppOptions)
           /\ phase' = "idle"
           /\ app' = [app EXCEPT !.vectorData = IF NoContours(vectorData')
                                                THEN createTestContours ELSE vectorData',
                                 !.chains[k] = "model"]

\* the second timer of a chain fires (app.js:259-277): createModel, then the
\* buttons
ModelTimerElapsed ==
    /\ Idle
    /\ \E k \in 1..Len(app.chains) :
           /\ app.chains[k] = "model"
           /\ CreateModel(app.vectorData)
           /\ app' = [app EXCEPT !.exportStlDisabled = (ret'.value = NULL),
                                 !.exportDxfDisabled = (ret'.value = NULL),
                                 !.processDisabled = FALSE,
                                 !.chains = RemoveAt(@, k)]
    /\ UNCHANGED vectorizerVars

\* extrusionInput input (app.js:289-294)
ExtrusionInput ==
    /\ Idle
    /\ app.vectorData # NULL
    /\ CreateModel(app.vectorData)
    /\ UNCHANGED <<vectorizerVars, app>>

\* exportStlBtn click (app.js:297-309)
ExportStlClick ==
    /\ Idle
    /\ ~app.exportStlDisabled
    /\ ExportSTL
    /\ UNCHANGED <<vectorizerVars, app>>

\* exportDxfBtn click (app.js:312-324)
ExportDxfClick ==
    /\ Idle
    /\ ~app.exportDxfDisabled
    /\ ExportDXF
    /\ UNCHANGED <<vectorizerVars, app>>

NextApp ==
    \/ SelectImage
    \/ LoadResolved
    \/ LoadRejected
    \/ WebcamClick
    \/ MediaGranted
    \/ MediaDenied
    \/ CancelClick
    \/ CaptureClick
    \/ ProcessClick
    \/ DelayElapsed
    \/ ModelTimerElapsed
    \/ ExtrusionInput
    \/ ExportStlClick
    \/ ExportDxfClick

SpecApp == InitApp /\ [][NextApp]_vars

\* a processing chain ends in this step: its last callback has run
RunCompletes == Len(app'.chains) < Len(app.chains)

\* C24: when a processing run started with the process button completes and
\* has built a model, the renderer's canvas is attached to the model-preview
\* container, in the first run and in every later one
C24_PreviewAttachedAfterRun ==
    [][(RunCompletes /\ Len(meshes') > 0) => app'.canvasAttached]_vars

\* a run has just completed with a model and enabled exports, and the
\* preview container holds no canvas
C24_ModelBuiltCanvasDetached ==
    /\ ret.op = "createModel"
    /\ Len(meshes) > 0
    /\ app.chains = <<>>
    /\ ~app.exportStlDisabled
    /\ ~app.canvasAttached

\* C27: the process button is disabled whenever a processing chain is in
\* flight, and two chains are never in flight at once
C27_OneChainButtonDisabled ==
    /\ Len(app.chains) > 0 => app.processDisabled
    /\ Len(app.chains) <= 1

\* two chains are in flight at once
C27_TwoChainsInFlight == Len(app.chains) = 2

\* C28: whenever an export button is enabled the Extruder holds at least one
\* mesh, so a click on an enabled export button never gets the no-model error
C28_ExportEnabledMeansMesh ==
    /\ (~app.exportStlDisabled \/ ~app.exportDxfDisabled) => Len(meshes) > 0
    /\ ret.op \in {"exportSTL", "exportDXF"} => ~Has(ret.value, "error")

\* a click on the enabled STL button has failed with the no-model error
C28_EnabledExportFailed ==
    /\ ret.op = "exportSTL"
    /\ ~app.exportStlDisabled
    /\ Has(ret.value, "error")
    /\ Len(meshes) = 0

\* the catalogue image that is loaded, 0 for none
LoadedImage ==
    IF imageData = NULL THEN 0
    ELSE CHOOSE i \in 1..Len(AppImages) : AppImages[i].image = imageData

\* the meshes were built from the paths of catalogue image i
ModelOf(i) ==
    \A k \in 1..Len(meshes) :
        \E j \in 1..Len(AppImages[i].paths) :
            meshes[k].contours[1] = AppImages[i].paths[j].points

\* C29: when a new image replaces the loaded one, by file or by capture, both
\* export buttons are disabled, and an enabled export button never exports a
\* model built from an image loaded before
C29_ExportOnlyOfLoadedImage ==
    /\ [][imageData' # imageData =>
             (app'.exportStlDisabled /\ app'.exportDxfDisabled)]_vars
    /\ []((~app.exportStlDisabled \/ ~app.exportDxfDisabled) =>
             (Len(meshes) > 0 /\ ModelOf(LoadedImage)))

\* the second image came from the webcam; the export buttons are enabled and
\* the mesh is the one built from the first image
C29_CaptureKeepsOldModel ==
    /\ LoadedImage = 2
    /\ app.loads = <<>> /\ app.chains = <<>>
    /\ ~app.exportStlDisabled /\ ~app.exportDxfDisabled
    /\ Len(meshes) > 0
    /\ ModelOf(1)

\* C30: no camera stream is live while the webcam container is hidden, and
\* at most one camera stream is live at a time
C30_StreamOnlyWhileShown ==
    /\ app.webcamContainer = "none" => app.live = {}
    /\ Cardinality(app.live) <= 1

\* the container is hidden, nothing is pending, and a stream is live that
\* stopWebcam can no longer reach
C30_StreamLeftLive ==
    /\ app.webcamContainer = "none"
    /\ app.pendingMedia = 0
    /\ app.live # {}

\* the points a returned polygon got while the tracer walked: all but the
\* closing copy of the start point, which is last, or first after the reversal
WalkedPart(c) == IF isInverted THEN SubSeq(c, 2, Len(c)) ELSE SubSeq(c, 1, Len(c) - 1)

\* every walk of the current tracer call: the returned ones and the one in progress
Walks == [k \in 1..Len(contours) |-> WalkedPart(contours[k])] \o <<contour>>

InkWithBackgroundNeighbour(p) ==
    /\ <<p.x, p.y>> \in binaryImage
    /\ \E d \in {<<0, -1>>, <<0, 1>>, <<-1, 0>>, <<1, 0>>} :
           <<p.x + d[1], p.y + d[2]>> \notin binaryImage

EightAdjacent(p, q) == p # q /\ Abs(p.x - q.x) <= 1 /\ Abs(p.y - q.y) <= 1

\* C25: every point the tracer appends while walking is an ink pixel with a
\* background 4-neighbour and is 8-adjacent to the point appended before it;
\* no pixel is appended twice, within a trace or to two traces
C25_WalkOnBoundaryWithoutRepeats ==
    \A k \in 1..Len(Walks) :
        /\ \A i \in 1..Len(Walks[k]) : InkWithBackgroundNeighbour(Walks[k][i])
        /\ \A i \in 1..(Len(Walks[k]) - 1) : EightAdjacent(Walks[k][i], Walks[k][i + 1])
        /\ \A i, j \in 1..Len(Walks[k]) : i # j => Walks[k][i] # Walks[k][j]
        /\ \A m \in 1..Len(Walks) : k # m => Range(Walks[k]) \cap Range(Walks[m]) = {}

\* the tracer has finished with two polygons, one of them of five walked
\* points or more, on a buffer that holds ink without a background 4-neighbour
C25_TwoTracesReturned ==
    /\ tpc = "done"
    /\ Len(contours) >= 2
    /\ \E k \in 1..Len(contours) : Len(WalkedPart(contours[k])) >= 5
    /\ \E c \in binaryImage : ~InkWithBackgroundNeighbour(Pt(c[1], c[2]))

\* the polygons of the last tracer call, shifted back by the padding
ShiftedBack == Adjusted(contours)

\* a delivered contour that comes from the tracer call on the inverted buffer:
\* its points are points of one polygon of that call
FromInverted(d) ==
    isInverted /\ \E k \in 1..Len(ShiftedBack) : Range(d) \subseteq Range(ShiftedBack[k])

\* that polygon in the order in which the tracer walked it (line 820 undone)
WalkOf(d) ==
    Reverse(ShiftedBack[CHOOSE k \in 1..Len(ShiftedBack) : Range(d) \subseteq Range(ShiftedBack[k])])

Sign(n) == IF n > 0 THEN 1 ELSE IF n < 0 THEN -1 ELSE 0

\* C26: every contour that fallbackVectorize derives from the inverted buffer
\* is delivered in the reverse of the order in which the tracer walked it:
\* its signed area has the opposite sign to that of the walk
C26_InvertedContoursReversed ==
    FallbackResolved =>
        \A d \in Range(vectorData.contours) :
            FromInverted(d) => Sign(ShoelaceSum(d)) = -Sign(ShoelaceSum(WalkOf(d)))

\* a contour from the inverted buffer is delivered with the sign of area
\* that its walk has
C26_HoleInWalkingOrder ==
    /\ FallbackResolved
    /\ \E d \in Range(vectorData.contours) :
           /\ FromInverted(d)
           /\ ShoelaceSum(d) # 0
           /\ Sign(ShoelaceSum(d)) = Sign(ShoelaceSum(WalkOf(d)))
====
